---- MODULE Spec2Model ----
(***************************************************************************)
(* State-machine model of the IWantIt step pipeline: the workflow runner   *)
(* (pipeline.py run_workflow / run_step), the single-step command          *)
(* (cli.py cmd_step), the bounded HTTP retry loop (util.py                 *)
(* request_with_retry) and the decision step (steps/builtin.py decide).    *)
(***************************************************************************)
EXTENDS Integers, Sequences, FiniteSets, TLC

VARIABLES
    mode,       \* entry point: "run" (run_workflow), "step" (cmd_step), "retry", "decide"
    data,       \* the document threaded through the steps
    config,     \* resolved configuration (read-only during a run)
    context,    \* pipeline.Context: choice_index, dry_run, confirm
    args,       \* run_workflow arguments: workflow_name, start_step, end_step
    pc,         \* position of the runner: "pre", "select", "wf", "post", "done"
    idx,        \* index of the next list entry in the current loop (1-based)
    started,    \* run_workflow local `started`
    saw_start,  \* run_workflow local `saw_start`
    workflow,   \* steps of the workflow chosen by select_workflow
    trace,      \* names of the steps handed to run_step (or called by cmd_step), in order
    last,       \* what the most recent of these calls did: body invoked, transport calls, outcome
    rq          \* request_with_retry harness: inputs and result

vars == <<mode, data, config, context, args, pc, idx, started, saw_start, workflow, trace, last, rq>>

\* ---------------------------------------------------------------- bounds
MaxRetries == 2
MaxCands == 2
MaxRank == 3

\* ---------------------------------------------------------------- optional values
None == <<>>
Some(x) == <<x>>
IsSome(o) == o # <<>>
Val(o) == o[1]

\* ---------------------------------------------------------------- HTTP retry (util.py)
DefaultRetryStatuses == {429, 502, 503, 504}

\* one transport call either raises a requests exception or yields a status
Exceptions == {"Timeout", "ConnectionError"}
Statuses == {200, 404, 503}
Outcomes == [exc : Exceptions, status : {0}] \cup [exc : {"none"}, status : Statuses]

RECURSIVE RetryLoopOffByOne(_, _, _, _)
RetryLoopOffByOne(retries, retry_statuses, outcomes, attempt) ==
    LET o == outcomes[attempt + 1] IN
    IF o.exc # "none"
    THEN IF attempt > retries
         THEN [calls |-> attempt + 1, exc |-> o.exc, status |-> 0]
         ELSE RetryLoopOffByOne(retries, retry_statuses, outcomes, attempt + 1)
    ELSE IF o.status \in retry_statuses /\ attempt <= retries
         THEN RetryLoopOffByOne(retries, retry_statuses, outcomes, attempt + 1)
         ELSE [calls |-> attempt + 1, exc |-> "none", status |-> o.status]

\* the while-loop of request_with_retry; outcomes[k] is the outcome of the k-th
\* transport call.  Each iteration makes exactly one call.
RECURSIVE RetryLoop(_, _, _, _)
RetryLoop(retries, retry_statuses, outcomes, attempt) ==
    LET o == outcomes[attempt + 1] IN
    IF o.exc # "none"
    THEN IF attempt >= retries
         THEN [calls |-> attempt + 1, exc |-> o.exc, status |-> 0]
         ELSE RetryLoop(retries, retry_statuses, outcomes, attempt + 1)
    ELSE IF o.status \in retry_statuses /\ attempt < retries
         THEN RetryLoop(retries, retry_statuses, outcomes, attempt + 1)
         ELSE [calls |-> attempt + 1, exc |-> "none", status |-> o.status]

request_with_retry(retries, retry_statuses, outcomes) ==
    RetryLoop(retries, IF retry_statuses = None THEN DefaultRetryStatuses ELSE Val(retry_statuses),
              outcomes, 0)

\* ---------------------------------------------------------------- decide (steps/builtin.py)
\* a candidate: the word tokens of its title/sort_title and its rank score
Titles == {{"album", "flac"}, {"album", "v0"}, {"album", "320", "mp3"}, {"album", "320"}, {"album"}}
Scores == {15, 120}
Candidates == [title : Titles, score : Scores]

detect_format(candidate) ==
    IF "flac" \in candidate.title THEN "flac"
    ELSE IF "v0" \in candidate.title THEN "v0"
    ELSE IF "320" \in candidate.title /\ candidate.title \cap {"kbps", "320k", "mp3"} # {} THEN "320"
    ELSE "none"

preference(fmt) == CASE fmt = "flac" -> 0 [] fmt = "v0" -> 1 [] fmt = "320" -> 2

score(candidate) == candidate.score

\* an index that is always that of the first element
position_zero(seq, x) == 0

\* list.index: 0-based position of the first element equal to x
index_of(seq, x) == (CHOOSE i \in 1..Len(seq) : seq[i] = x /\ \A j \in 1..(i - 1) : seq[j] # x) - 1

first_of_tier(seq) == seq[1]

\* max(seq, key=score): the first element whose key is maximal
max_by_score(seq) ==
    seq[CHOOSE i \in 1..Len(seq) :
            /\ \A j \in 1..Len(seq) : score(seq[j]) <= score(seq[i])
            /\ \A j \in 1..(i - 1) : score(seq[j]) < score(seq[i])]

NoDecision == [status |-> "none", reason |-> None, selected |-> None, index |-> None, options |-> None]

decision_selected(sel, index, reason) ==
    [status |-> "selected", reason |-> reason, selected |-> Some(sel), index |-> index, options |-> None]

decision_needs_choice(reason, options) ==
    [status |-> "needs_choice", reason |-> Some(reason), selected |-> None, index |-> None,
     options |-> Some(options)]

choice_in_range_from_one(ctx, candidates) ==
    /\ IsSome(ctx.choice_index) /\ candidates # <<>>
    /\ 0 < Val(ctx.choice_index) /\ Val(ctx.choice_index) < Len(candidates)

\* context.choice_index is not None and candidates and 0 <= idx < len(candidates)
choice_in_range(ctx, candidates) ==
    /\ IsSome(ctx.choice_index) /\ candidates # <<>>
    /\ 0 <= Val(ctx.choice_index) /\ Val(ctx.choice_index) < Len(candidates)

is_preselected_in_candidates(d) ==
    /\ IsSome(d.work.selected)
    /\ \E i \in 1..Len(d.work.candidates) : d.work.candidates[i] = Val(d.work.selected)

\* preselected = work.get("selected"); preselected is not None
is_preselected(d) == IsSome(d.work.selected)

explicit_applies_single(d, step_cfg, candidates) ==
    d.request.explicit_version /\ step_cfg.auto_select_explicit /\ Len(candidates) = 1

\* request.get("explicit_version") and step_cfg.get("auto_select_explicit", True) and candidates
explicit_applies(d, step_cfg, candidates) ==
    d.request.explicit_version /\ step_cfg.auto_select_explicit /\ candidates # <<>>

fallback_single_needs_choice(d, candidates) ==
    IF Len(candidates) >= 1
    THEN [d EXCEPT !.decision = decision_needs_choice("multiple_candidates", candidates)]
    ELSE [d EXCEPT !.decision = decision_needs_choice("no_candidates", candidates)]

fallback_selects_first(d, candidates) ==
    IF Len(candidates) >= 1
    THEN [d EXCEPT !.decision = decision_selected(candidates[1], Some(0), None),
                   !.work.selected = Some(candidates[1])]
    ELSE [d EXCEPT !.decision = decision_needs_choice("no_candidates", candidates)]

\* the last rules: one candidate is selected, several need a choice, and the
\* decision prepared at the top (no_candidates) stands when there is none
fallback(d, candidates) ==
    IF Len(candidates) = 1
    THEN [d EXCEPT !.decision = decision_selected(candidates[1], Some(0), None),
                   !.work.selected = Some(candidates[1])]
    ELSE IF Len(candidates) > 1
    THEN [d EXCEPT !.decision = decision_needs_choice("multiple_candidates", candidates)]
    ELSE [d EXCEPT !.decision = decision_needs_choice("no_candidates", candidates)]

decide(d, step_cfg, ctx) ==
    LET candidates == d.work.candidates
        media_type == IF d.work.media_type # "" THEN d.work.media_type ELSE d.request.media_type
        known(c) == detect_format(c) # "none"
        available == {detect_format(candidates[i]) : i \in 1..Len(candidates)} \ {"none"}
        best_pref == CHOOSE p \in {preference(f) : f \in available} :
                         \A f \in available : p <= preference(f)
        allowed(c) == known(c) /\ preference(detect_format(c)) = best_pref
        allowed_candidates == SelectSeq(candidates, allowed)
        pick(sel, index, reason) ==
            [d EXCEPT !.decision = decision_selected(sel, index, reason),
                      !.work.selected = Some(sel)]
    IN
    IF is_preselected(d)
    THEN [d EXCEPT !.decision =
            decision_selected(Val(d.work.selected),
                              IF \E i \in 1..Len(candidates) : candidates[i] = Val(d.work.selected)
                              THEN Some(index_of(candidates, Val(d.work.selected)))
                              ELSE None,
                              None)]
    ELSE IF choice_in_range(ctx, candidates)
    THEN pick(candidates[Val(ctx.choice_index) + 1], ctx.choice_index, None)
    ELSE IF explicit_applies(d, step_cfg, candidates)
    THEN pick(candidates[1], Some(0), Some("explicit_version"))
    ELSE IF /\ step_cfg.auto_select_formats /\ media_type = "music" /\ Len(candidates) > 1
            /\ available # {}
    THEN LET sel == max_by_score(allowed_candidates)
         IN pick(sel, Some(index_of(candidates, sel)), Some("auto_format"))
    ELSE fallback(d, candidates)

\* ---------------------------------------------------------------- rank_releases (steps/builtin.py)
\* a release as a search returns it: the word tokens of its title, seeders and
\* size; score and rejected are its rank (0 and FALSE while it has none)
RankTitles == {{"album", "flac"}, {"album", "live"}, {"album", "flac", "surround"}}
Releases == [title : RankTitles, seeders : {0, 5}, size : {1, 2}, score : {0}, rejected : {FALSE}]

\* quality rules of one media type, after _normalize_rules: reject and score
\* patterns are words looked for in the title
Rules(reject, numeric_fields, sort_fields) ==
    [base_score |-> 0, reject |-> reject,
     score |-> <<[match |-> "flac", score |-> 120], [match |-> "live", score |-> 10]>>,
     numeric_fields |-> numeric_fields, sort_fields |-> sort_fields]

RuleSets ==
    {Rules(<<"surround">>, <<[path |-> "seeders", weight |-> 1]>>, None),
     Rules(<<"surround">>, <<>>, None),
     Rules(<<>>, <<>>, None),
     Rules(<<"surround", "flac">>, <<>>, None),
     Rules(<<"surround">>, <<[path |-> "rank.score", weight |-> 1]>>, None),
     Rules(<<"surround">>, <<>>, Some(<<[path |-> "size", desc |-> FALSE],
                                         [path |-> "rank.score", desc |-> TRUE]>>))}

\* _get_path(candidate, path)
get_path(candidate, path) ==
    CASE path = "seeders" -> candidate.seeders
      [] path = "size" -> candidate.size
      [] path = "rank.score" -> candidate.score

\* re.search(pattern, text)
text_matches(candidate, pattern) == pattern \in candidate.title

initial_score_accumulating(rules, candidate) == rules.base_score + candidate.score

\* score = float(rules.get("base_score") or 0.0)
initial_score(rules, candidate) == rules.base_score

RECURSIVE score_rules_sum(_, _, _)
score_rules_sum(score_rules, candidate, i) ==
    IF i > Len(score_rules) THEN 0
    ELSE (IF text_matches(candidate, score_rules[i].match) THEN score_rules[i].score ELSE 0)
         + score_rules_sum(score_rules, candidate, i + 1)

RECURSIVE numeric_fields_sum(_, _, _)
numeric_fields_sum(numeric_fields, candidate, i) ==
    IF i > Len(numeric_fields) THEN 0
    ELSE get_path(candidate, numeric_fields[i].path) * numeric_fields[i].weight
         + numeric_fields_sum(numeric_fields, candidate, i + 1)

\* candidate["rank"] = {"score": score, "rejected": rejected_match, ...}
rank_candidate(rules, candidate) ==
    [candidate EXCEPT
        !.score = initial_score(rules, candidate)
                  + score_rules_sum(rules.score, candidate, 1)
                  + numeric_fields_sum(rules.numeric_fields, candidate, 1),
        !.rejected = \E i \in 1..Len(rules.reject) : text_matches(candidate, rules.reject[i])]

default_sort_key_no_size(item) == <<-item.score, -item.seeders, 0>>

\* (-rank.score, -seeders, -size)
default_sort_key(item) == <<-item.score, -item.seeders, -item.size>>

\* the key of ranked.sort: from sort_fields when given, the default otherwise
sort_key(rules, item) ==
    IF IsSome(rules.sort_fields)
    THEN [i \in 1..Len(Val(rules.sort_fields)) |->
            IF Val(rules.sort_fields)[i].desc
            THEN -get_path(item, Val(rules.sort_fields)[i].path)
            ELSE get_path(item, Val(rules.sort_fields)[i].path)]
    ELSE default_sort_key(item)

\* tuple comparison a < b
RECURSIVE tuple_less(_, _)
tuple_less(a, b) ==
    IF a = <<>> \/ b = <<>> THEN a = <<>> /\ b # <<>>
    ELSE IF Head(a) # Head(b) THEN Head(a) < Head(b)
    ELSE tuple_less(Tail(a), Tail(b))

\* list.sort(key=...) is stable: an item goes before the first one with a greater key
RECURSIVE insert_sorted(_, _, _)
insert_sorted(rules, sorted, item) ==
    IF sorted = <<>> THEN <<item>>
    ELSE IF tuple_less(sort_key(rules, item), sort_key(rules, Head(sorted)))
    THEN <<item>> \o sorted
    ELSE <<Head(sorted)>> \o insert_sorted(rules, Tail(sorted), item)

RECURSIVE sort_ranked(_, _)
sort_ranked(rules, ranked) ==
    IF ranked = <<>> THEN <<>>
    ELSE insert_sorted(rules, sort_ranked(rules, SubSeq(ranked, 1, Len(ranked) - 1)),
                       ranked[Len(ranked)])

admitted_or_rejected(ranked, rejected) == IF ranked = <<>> THEN rejected ELSE ranked

\* work["candidates"] = ranked
admitted(ranked, rejected) == ranked

discard_rejected(work, rejected) == [work EXCEPT !.rejected_candidates = <<>>]

\* if rejected: work["rejected_candidates"] = rejected
keep_rejected(work, rejected) ==
    IF rejected # <<>> THEN [work EXCEPT !.rejected_candidates = rejected] ELSE work

rank_releases(d, step_cfg, ctx_config) ==
    LET candidates == d.work.candidates
        rules == ctx_config.quality_rules
        scored == [i \in 1..Len(candidates) |-> rank_candidate(rules, candidates[i])]
        is_rejected(c) == c.rejected
        is_ranked(c) == ~c.rejected
        ranked == sort_ranked(rules, SelectSeq(scored, is_ranked))
        rejected == SelectSeq(scored, is_rejected)
    IN IF candidates = <<>> THEN d
       ELSE [d EXCEPT !.work = [keep_rejected(d.work, rejected)
                                   EXCEPT !.candidates = admitted(ranked, rejected)]]

\* ---------------------------------------------------------------- step registry (step_metadata.py)
STEP_METADATA ==
    [identify_web_search   |-> [side_effect |-> FALSE, dispatch_key |-> None, dispatch_key_from_cfg |-> None],
     resolve_track_release |-> [side_effect |-> FALSE, dispatch_key |-> None, dispatch_key_from_cfg |-> None],
     prowlarr_search       |-> [side_effect |-> FALSE, dispatch_key |-> None, dispatch_key_from_cfg |-> None],
     redacted_enrich       |-> [side_effect |-> FALSE, dispatch_key |-> None, dispatch_key_from_cfg |-> None],
     redacted_comments     |-> [side_effect |-> FALSE, dispatch_key |-> None, dispatch_key_from_cfg |-> None],
     decide                |-> [side_effect |-> FALSE, dispatch_key |-> None, dispatch_key_from_cfg |-> None],
     prowlarr_grab         |-> [side_effect |-> TRUE, dispatch_key |-> Some("prowlarr"),
                                dispatch_key_from_cfg |-> None],
     http_dispatch         |-> [side_effect |-> TRUE, dispatch_key |-> None,
                                dispatch_key_from_cfg |-> Some("_step")],
     arr_dispatch          |-> [side_effect |-> TRUE, dispatch_key |-> None,
                                dispatch_key_from_cfg |-> Some("arr")]]

NoMetadata == [side_effect |-> FALSE, dispatch_key |-> None, dispatch_key_from_cfg |-> None]

get_step_metadata(step_name) ==
    IF step_name \in DOMAIN STEP_METADATA THEN STEP_METADATA[step_name] ELSE NoMetadata

\* names registered in BUILTINS (those of them the model covers)
BUILTINS == {"identify_web_search", "resolve_track_release", "prowlarr_search", "redacted_enrich",
             "redacted_comments", "decide", "prowlarr_grab", "http_dispatch", "arr_dispatch"}

ProviderSteps == {"identify_web_search", "prowlarr_search", "redacted_enrich", "redacted_comments",
                  "resolve_track_release"}
SideEffectBuiltins == {"prowlarr_grab", "http_dispatch", "arr_dispatch"}

\* ---------------------------------------------------------------- step configuration (config.py)
\* a step configuration; absent keys are None.  `command` marks an external step.
StepCfg(builtin, command, side_effect, skip_on_dry_run, arr) ==
    [builtin |-> builtin, command |-> command, side_effect |-> side_effect,
     skip_on_dry_run |-> skip_on_dry_run, arr |-> arr, step |-> None, retries |-> None,
     auto_select_explicit |-> TRUE, auto_select_formats |-> TRUE]

\* the `steps` table: dispatch_radarr as in default_config, three external commands
\* (notify and announce declare side_effect: true, announce also skip_on_dry_run),
\* every other name is its own builtin
ConfiguredSteps(auto_select_explicit, auto_select_formats) ==
    [decide          |-> [StepCfg(Some("decide"), FALSE, None, FALSE, None)
                              EXCEPT !.auto_select_explicit = auto_select_explicit,
                                     !.auto_select_formats = auto_select_formats],
     dispatch_radarr |-> StepCfg(Some("arr_dispatch"), FALSE, None, FALSE, Some("radarr")),
     notify          |-> StepCfg(None, TRUE, Some(TRUE), FALSE, None),
     announce        |-> StepCfg(None, TRUE, Some(TRUE), TRUE, None),
     tagger          |-> StepCfg(None, TRUE, None, FALSE, None)]

\* config.get("steps", {}).get(step_name, {"builtin": step_name})
step_cfg_for(cfg, step_name) ==
    IF step_name \in DOMAIN cfg.steps THEN cfg.steps[step_name]
    ELSE StepCfg(Some(step_name), FALSE, None, FALSE, None)

DispatchKeys == {"prowlarr", "http_dispatch", "radarr", "notify", "announce"}

\* ---------------------------------------------------------------- what a step meets outside the program
\* the responses of the transport to successive calls, the body of a 200 response,
\* whether configuration and document let the step reach its request, the
\* candidates a search returns, and what an external command prints
Bodies == {"good", "nonjson", "not_object", "wrong_fields"}
ExtOutcomes == {"empty", "doc", "nonzero", "badjson", "nonobject", "timeout"}
ExtStatuses == {"selected", "needs_choice", "error"}

Const(o) == [k \in 1..(MaxRetries + 2) |-> o]
ThenOk(o) == [k \in 1..(MaxRetries + 2) |-> IF k = 1 THEN o ELSE [exc |-> "none", status |-> 200]]
RunOutcomeSeqs == {Const(o) : o \in Outcomes} \cup {ThenOk([exc |-> "Timeout", status |-> 0])}

Flac120 == [title |-> {"album", "flac"}, score |-> 120]
Mp3x15 == [title |-> {"album", "320", "mp3"}, score |-> 15]
Plain15 == [title |-> {"album"}, score |-> 15]
RunCandLists == {<<>>, <<Flac120, Mp3x15>>, <<Plain15, Plain15>>}

DefaultInput ==
    [ready |-> TRUE, outcomes |-> Const([exc |-> "none", status |-> 200]), body |-> "good",
     cands |-> <<>>, unresolved |-> FALSE, ext |-> "empty", ext_status |-> "selected"]

CallInputs ==
    {[DefaultInput EXCEPT !.outcomes = o, !.body = b] : o \in RunOutcomeSeqs, b \in Bodies}
    \cup {[DefaultInput EXCEPT !.ready = FALSE]}

InputsFor(step_cfg) ==
    IF step_cfg.command
    THEN {[DefaultInput EXCEPT !.ext = e] : e \in ExtOutcomes \ {"doc"}}
         \cup {[DefaultInput EXCEPT !.ext = "doc", !.ext_status = s] : s \in ExtStatuses}
    ELSE IF step_cfg.builtin = Some("prowlarr_search")
    THEN {[i EXCEPT !.cands = c] : i \in CallInputs, c \in RunCandLists}
    ELSE IF step_cfg.builtin = Some("prowlarr_grab")
    THEN CallInputs \cup {[DefaultInput EXCEPT !.unresolved = TRUE]}
    ELSE IF step_cfg.builtin = Some("decide") \/ Val(step_cfg.builtin) \notin BUILTINS
    THEN {DefaultInput}
    ELSE CallInputs

\* ---------------------------------------------------------------- results of a builtin / run_step
\* raised = "none" when the call returned; calls = transport calls it made
Returned(d, calls) == [raised |-> "none", code |-> "", doc |-> d, calls |-> calls]
Raised(exc, d, calls) == [raised |-> exc, code |-> "", doc |-> d, calls |-> calls]
RaisedStepError(code, d) == [raised |-> "StepError", code |-> code, doc |-> d, calls |-> 0]

retries_of(step_cfg) == IF IsSome(step_cfg.retries) THEN Val(step_cfg.retries) ELSE 0

\* request_with_retry followed by response.raise_for_status()
fetch(step_cfg, inp) ==
    LET r == request_with_retry(retries_of(step_cfg), None, inp.outcomes)
    IN IF r.exc = "none" /\ r.status >= 400 THEN [r EXCEPT !.exc = "HTTPError"] ELSE r

\* ---------------------------------------------------------------- provider steps (steps/builtin.py)
with_media_type(d) ==
    IF d.request.media_type # "" /\ d.work.media_type = ""
    THEN [d EXCEPT !.work.media_type = d.request.media_type] ELSE d

\* try: request_with_retry; raise_for_status; response.json()
\* except (RequestException, JSONDecodeError): return data
prowlarr_search(d, step_cfg, ctx, inp) ==
    LET d1 == with_media_type(d)
        r == fetch(step_cfg, inp)
        mapped == IF inp.body = "good" THEN inp.cands ELSE <<>>
        d2 == [d1 EXCEPT !.search = @ \cup {"prowlarr"},
                         !.work.candidates = IF mapped # <<>> THEN mapped ELSE @]
    IN IF ~inp.ready THEN Returned(d1, 0)
       ELSE IF r.exc # "none" \/ inp.body = "nonjson" THEN Returned(d1, r.calls)
       ELSE Returned(d2, r.calls)

identify_web_search(d, step_cfg, ctx, inp) ==
    LET d1 == with_media_type(d)
        r == fetch(step_cfg, inp)
    IN IF ~inp.ready THEN Returned(d1, 0)
       ELSE IF r.exc # "none" \/ inp.body = "nonjson" THEN Returned(d1, r.calls)
       ELSE Returned([d1 EXCEPT !.search = @ \cup {"web"}], r.calls)

\* the request is inside try/except, the reading of payload["response"] is not
resolve_track_release(d, step_cfg, ctx, inp) ==
    LET r == fetch(step_cfg, inp)
        media_type == IF d.work.media_type # "" THEN d.work.media_type ELSE d.request.media_type
    IN IF media_type # "music" \/ ~inp.ready THEN Returned(d, 0)
       ELSE IF r.exc # "none" \/ inp.body = "nonjson" THEN Returned(d, r.calls)
       ELSE IF inp.body = "not_object" THEN Raised("AttributeError", d, r.calls)
       ELSE Returned([d EXCEPT !.work.track_search = TRUE], r.calls)

\* no try/except around the request, raise_for_status or response.json()
redacted_enrich(d, step_cfg, ctx, inp) ==
    LET r == fetch(step_cfg, inp)
    IN IF d.work.candidates = <<>> \/ ~inp.ready THEN Returned(d, 0)
       ELSE IF r.exc # "none" THEN Raised(r.exc, d, r.calls)
       ELSE IF inp.body = "nonjson" THEN Raised("JSONDecodeError", d, r.calls)
       ELSE Returned([d EXCEPT !.redacted = TRUE], r.calls)

redacted_comments(d, step_cfg, ctx, inp) ==
    LET r == fetch(step_cfg, inp)
    IN IF ~d.redacted \/ ~inp.ready THEN Returned(d, 0)
       ELSE IF r.exc # "none" THEN Raised(r.exc, d, r.calls)
       ELSE IF inp.body = "nonjson" THEN Raised("JSONDecodeError", d, r.calls)
       ELSE IF inp.body = "not_object" THEN Raised("AttributeError", d, r.calls)
       ELSE IF inp.body = "wrong_fields" THEN Returned(d, r.calls)
       ELSE Returned([d EXCEPT !.comments = TRUE], r.calls)

\* ---------------------------------------------------------------- side-effect steps (steps/builtin.py)
\* the request of a dispatch step: a failed call or an error status raises,
\* a body that is not JSON is kept as text
dispatch_call(d, key, step_cfg, inp) ==
    LET r == fetch(step_cfg, inp)
    IN IF r.exc # "none" THEN Raised(r.exc, d, r.calls)
       ELSE Returned([d EXCEPT !.dispatch[key] = "ok"], r.calls)

\* returns early without a selection, a request description or a url; raises on
\* unresolved template values; only then looks at dry_run
prowlarr_grab(d, step_cfg, ctx, inp) ==
    IF d.work.selected = None \/ ~inp.ready THEN Returned(d, 0)
    ELSE IF inp.unresolved THEN Raised("RuntimeError", d, 0)
    ELSE IF ctx.dry_run THEN Returned([d EXCEPT !.dispatch["prowlarr"] = "dry_run"], 0)
    ELSE dispatch_call(d, "prowlarr", step_cfg, inp)

\* raises without a url (ready = FALSE) before it looks at dry_run
dispatch_http(d, step_cfg, ctx, inp) ==
    LET step_key == IF IsSome(step_cfg.step) THEN Val(step_cfg.step) ELSE "http"
    IN IF ~inp.ready THEN Raised("RuntimeError", d, 0)
       ELSE IF ctx.dry_run THEN Returned([d EXCEPT !.dispatch[step_key] = "dry_run"], 0)
       ELSE dispatch_call(d, step_key, step_cfg, inp)

dispatch_arr(d, step_cfg, ctx, inp) ==
    IF step_cfg.arr = None \/ ~inp.ready THEN Raised("RuntimeError", d, 0)
    ELSE IF ctx.dry_run THEN Returned([d EXCEPT !.dispatch[Val(step_cfg.arr)] = "dry_run"], 0)
    ELSE dispatch_call(d, Val(step_cfg.arr), step_cfg, inp)

call_builtin(name, d, step_cfg, ctx, inp) ==
    CASE name = "identify_web_search" -> identify_web_search(d, step_cfg, ctx, inp)
      [] name = "resolve_track_release" -> resolve_track_release(d, step_cfg, ctx, inp)
      [] name = "prowlarr_search" -> prowlarr_search(d, step_cfg, ctx, inp)
      [] name = "redacted_enrich" -> redacted_enrich(d, step_cfg, ctx, inp)
      [] name = "redacted_comments" -> redacted_comments(d, step_cfg, ctx, inp)
      [] name = "decide" -> Returned(decide(d, step_cfg, ctx), 0)
      [] name = "prowlarr_grab" -> prowlarr_grab(d, step_cfg, ctx, inp)
      [] name = "http_dispatch" -> dispatch_http(d, step_cfg, ctx, inp)
      [] name = "arr_dispatch" -> dispatch_arr(d, step_cfg, ctx, inp)

\* ---------------------------------------------------------------- external steps (pipeline.py)
\* a command whose exit status is not looked at
run_external_ignores_exit(d, inp) ==
    CASE inp.ext = "timeout" -> RaisedStepError("TIMEOUT", d)
      [] inp.ext = "nonzero" -> Returned(d, 0)
      [] inp.ext = "empty" -> Returned(d, 0)
      [] inp.ext = "badjson" -> RaisedStepError("PARSE_ERROR", d)
      [] inp.ext = "nonobject" -> RaisedStepError("PARSE_ERROR", d)
      [] inp.ext = "doc" -> Returned([d EXCEPT !.decision.status = inp.ext_status], 0)

run_external(d, inp) ==
    CASE inp.ext = "timeout" -> RaisedStepError("TIMEOUT", d)
      [] inp.ext = "nonzero" -> RaisedStepError("STEP_FAILED", d)
      [] inp.ext = "empty" -> Returned(d, 0)
      [] inp.ext = "badjson" -> RaisedStepError("PARSE_ERROR", d)
      [] inp.ext = "nonobject" -> RaisedStepError("PARSE_ERROR", d)
      [] inp.ext = "doc" -> Returned([d EXCEPT !.decision.status = inp.ext_status], 0)

\* ---------------------------------------------------------------- error classification (util.py)
classify_exception(exc) ==
    CASE exc = "Timeout" -> <<"TIMEOUT", "hint">>
      [] exc = "ConnectionError" -> <<"NETWORK_ERROR", "hint">>
      [] exc = "HTTPError" -> <<"NETWORK_ERROR", "hint">>
      [] exc = "JSONDecodeError" -> <<"PARSE_ERROR", "hint">>
      [] OTHER -> <<"STEP_ERROR", "hint">>

\* ---------------------------------------------------------------- run_step (pipeline.py)
cfg_get(step_cfg, key) == CASE key = "_step" -> step_cfg.step [] key = "arr" -> step_cfg.arr

dispatch_key_of(step_name, step_cfg, meta) ==
    IF IsSome(meta.dispatch_key) THEN Val(meta.dispatch_key)
    ELSE IF IsSome(meta.dispatch_key_from_cfg) /\ IsSome(cfg_get(step_cfg, Val(meta.dispatch_key_from_cfg)))
    THEN Val(cfg_get(step_cfg, Val(meta.dispatch_key_from_cfg)))
    ELSE step_name

\* dict(step_cfg) completed from the workflow-level retries, and _step
merged_cfg(step_name, step_cfg, cfg) ==
    [step_cfg EXCEPT !.retries = IF IsSome(@) THEN @ ELSE cfg.retries,
                     !.step = IF IsSome(@) THEN @ ELSE Some(step_name)]

StepResult(r, body, end) ==
    [raised |-> r.raised, code |-> r.code, doc |-> r.doc, calls |-> r.calls, body |-> body, end |-> end]

\* side_effect taken from the registry alone
is_side_effect_by_registry(step_name, step_cfg) ==
    get_step_metadata(IF IsSome(step_cfg.builtin) THEN Val(step_cfg.builtin)
                      ELSE step_name).side_effect

\* side_effect as run_step computes it: the configured key wins over the registry
is_side_effect(step_name, step_cfg) ==
    IF IsSome(step_cfg.side_effect) THEN Val(step_cfg.side_effect)
    ELSE get_step_metadata(IF IsSome(step_cfg.builtin) THEN Val(step_cfg.builtin)
                           ELSE step_name).side_effect

needs_confirm(side_effect, ctx) == side_effect /\ ~ctx.confirm /\ ~ctx.dry_run

\* the skip that records the dispatch status and no warning
skipped_without_warning(d, dispatch_key, step_name) ==
    [d EXCEPT !.dispatch[dispatch_key] = "skipped"]

\* the document a step skipped for lack of confirmation returns
skipped_for_confirm(d, dispatch_key, step_name) ==
    [d EXCEPT !.dispatch[dispatch_key] = "skipped",
              !.warnings = Append(@, [type |-> "needs_confirm", step |-> step_name])]

run_step(step_name, step_cfg, d, ctx, cfg, inp) ==
    LET builtin_name == IF IsSome(step_cfg.builtin) THEN Val(step_cfg.builtin) ELSE step_name
        meta == get_step_metadata(builtin_name)
        side_effect == is_side_effect(step_name, step_cfg)
        skipped == skipped_for_confirm(d, dispatch_key_of(step_name, step_cfg, meta), step_name)
        ext == run_external(d, inp)
        blt == call_builtin(builtin_name, d, merged_cfg(step_name, step_cfg, cfg), ctx, inp)
    IN
    IF needs_confirm(side_effect, ctx)
    THEN StepResult(Returned(skipped, 0), FALSE, "skipped")
    ELSE IF ctx.dry_run /\ step_cfg.skip_on_dry_run
    THEN StepResult(Returned([d EXCEPT !.dry_run = @ \cup {step_name}], 0), FALSE, "dry_run")
    ELSE IF step_cfg.command
    THEN StepResult(ext, TRUE, IF ext.raised = "none" THEN "ok" ELSE "error")
    ELSE IF builtin_name \notin BUILTINS
    THEN StepResult(RaisedStepError("STEP_ERROR", d), FALSE, "error")
    ELSE StepResult(blt, TRUE, IF blt.raised = "none" THEN "ok" ELSE "error")

\* ---------------------------------------------------------------- run_workflow (pipeline.py)
NoError == [message |-> None, step |-> None, type |-> None, code |-> None, hint |-> None]

capture_error_keeps_status(d, step_name, res) ==
    [d EXCEPT !.error = [message |-> Some(res.raised), step |-> Some(step_name),
                         type |-> Some(res.raised), code |-> None, hint |-> None]]

\* the except-branch of the step loops: StepError carries its own code and hint
capture_error(d, step_name, res) ==
    LET cls == classify_exception(res.raised)
        code == IF res.raised = "StepError" THEN res.code ELSE cls[1]
        hint == IF res.raised = "StepError" THEN "" ELSE cls[2]
    IN [d EXCEPT !.error = [message |-> Some(res.raised), step |-> Some(step_name),
                            type |-> Some(res.raised), code |-> Some(code), hint |-> Some(hint)],
                 !.decision.status = "error"]

Workflows(steps) ==
    <<[name |-> "music", match |-> "music", steps |-> steps],
      [name |-> "movie", match |-> "movie", steps |-> <<"dispatch_radarr">>],
      [name |-> "music_tags", match |-> "music", steps |-> <<"tagger">>]>>

\* a name that no workflow has falls back to the media type
select_workflow_falls_back(cfg, d, name) ==
    LET matching == {i \in 1..Len(cfg.workflows) :
                        \/ IsSome(name) /\ cfg.workflows[i].name = Val(name)
                        \/ cfg.workflows[i].match = d.request.media_type}
        named == {i \in matching : IsSome(name) /\ cfg.workflows[i].name = Val(name)}
        pick(S) == CHOOSE i \in S : \A j \in S : i <= j
    IN IF named # {} THEN Some(cfg.workflows[pick(named)])
       ELSE IF matching # {} THEN Some(cfg.workflows[pick(matching)])
       ELSE None

\* None when select_workflow raises StepError
select_workflow(cfg, d, name) ==
    LET first_where(seq, P(_)) ==
            CHOOSE i \in 1..Len(seq) : P(seq[i]) /\ \A j \in 1..(i - 1) : ~P(seq[j])
        named(wf) == wf.name = Val(name)
        matches(wf) == wf.match = d.request.media_type
    IN IF IsSome(name)
       THEN IF \E i \in 1..Len(cfg.workflows) : named(cfg.workflows[i])
            THEN Some(cfg.workflows[first_where(cfg.workflows, named)])
            ELSE None
       ELSE IF d.request.media_type # "" /\ \E i \in 1..Len(cfg.workflows) : matches(cfg.workflows[i])
            THEN Some(cfg.workflows[first_where(cfg.workflows, matches)])
            ELSE None

NoCall ==
    [n |-> 0, step |-> "", phase |-> "", side_effect |-> FALSE, body |-> FALSE, calls |-> 0,
     raised |-> "none", end |-> "", timeouts |-> FALSE, malformed |-> FALSE, ext |-> "",
     statuses |-> {}]

CallRecord(step_name, step_cfg, phase, res, inp) ==
    [n |-> last.n + 1, step |-> step_name, phase |-> phase,
     side_effect |-> is_side_effect(step_name, step_cfg), body |-> res.body, calls |-> res.calls,
     raised |-> res.raised, end |-> res.end,
     timeouts |-> res.calls > 0 /\ \A k \in 1..res.calls : inp.outcomes[k].exc = "Timeout",
     malformed |-> res.calls > 0 /\ inp.outcomes[res.calls] = [exc |-> "none", status |-> 200]
                   /\ inp.body # "good",
     ext |-> IF res.body /\ step_cfg.command THEN inp.ext ELSE "",
     statuses |-> last.statuses
                    \cup (IF res.raised = "none" THEN {res.doc.decision.status} ELSE {})]

is_start(step_name) == args.start_step = Some(step_name)
\* an end step that is never recognised
is_never_end(step_name) == FALSE

is_end(step_name) == IsSome(args.end_step) /\ args.end_step = Some(step_name)

\* where the runner goes when a loop over `steps` moves past position i
after_pre(i) == IF i < Len(config.pre_steps) THEN "pre" ELSE "select"
after_wf(i) == IF i < Len(workflow) THEN "wf" ELSE "post"

\* one iteration of `for step_name in config.get("pre_steps")`
PreStep ==
    /\ mode = "run" /\ pc = "pre"
    /\ LET step_name == config.pre_steps[idx]
           started1 == started \/ is_start(step_name)
       IN /\ started' = started1
          /\ saw_start' = (saw_start \/ (~started /\ is_start(step_name)))
          /\ IF ~started1
             THEN /\ pc' = after_pre(idx) /\ idx' = IF pc' = "pre" THEN idx + 1 ELSE 1
                  /\ UNCHANGED <<data, trace, last>>
             ELSE \E inp \in InputsFor(step_cfg_for(config, step_name)) :
                    LET res == run_step(step_name, step_cfg_for(config, step_name), data, context,
                                        config, inp)
                    IN /\ trace' = Append(trace, step_name)
                       /\ last' = CallRecord(step_name, step_cfg_for(config, step_name), "pre", res, inp)
                       /\ IF res.raised # "none"
                          THEN /\ data' = capture_error(data, step_name, res)
                               /\ pc' = "done" /\ idx' = idx
                          ELSE /\ data' = res.doc
                               /\ IF is_end(step_name)
                                  THEN pc' = "done" /\ idx' = idx
                                  ELSE /\ pc' = after_pre(idx)
                                       /\ idx' = IF pc' = "pre" THEN idx + 1 ELSE 1
    /\ UNCHANGED <<mode, config, context, args, workflow, rq>>

\* try: workflow = select_workflow(...) except: record the error and return
SelectWorkflow ==
    /\ mode = "run" /\ pc = "select"
    /\ LET wf == select_workflow(config, data, args.workflow_name)
       IN IF wf = None
          THEN /\ data' = [data EXCEPT !.error = [message |-> Some("StepError"),
                                                  step |-> Some("select_workflow"),
                                                  type |-> Some("StepError"),
                                                  code |-> Some(classify_exception("StepError")[1]),
                                                  hint |-> Some(classify_exception("StepError")[2])],
                                       !.decision.status = "error"]
               /\ pc' = "done" /\ UNCHANGED workflow
          ELSE /\ workflow' = Val(wf).steps
               /\ pc' = IF Val(wf).steps = <<>> THEN "post" ELSE "wf"
               /\ UNCHANGED data
    /\ idx' = 1
    /\ UNCHANGED <<mode, config, context, args, started, saw_start, trace, last, rq>>

\* the checks that follow a workflow step that returned
stops_after_end_only(d, step_name) == is_end(step_name)

stops_after(d, step_name) == d.decision.status = "needs_choice" \/ is_end(step_name)

\* one iteration of `for step_name in workflow.get("steps")`
WorkflowStep ==
    /\ mode = "run" /\ pc = "wf"
    /\ LET step_name == workflow[idx]
           started1 == started \/ is_start(step_name)
       IN /\ started' = started1
          /\ saw_start' = (saw_start \/ (~started /\ is_start(step_name)))
          /\ IF ~started1
             THEN /\ pc' = after_wf(idx) /\ idx' = IF pc' = "wf" THEN idx + 1 ELSE idx
                  /\ UNCHANGED <<data, trace, last>>
             ELSE \E inp \in InputsFor(step_cfg_for(config, step_name)) :
                    LET res == run_step(step_name, step_cfg_for(config, step_name), data, context,
                                        config, inp)
                    IN /\ trace' = Append(trace, step_name)
                       /\ last' = CallRecord(step_name, step_cfg_for(config, step_name), "wf", res, inp)
                       /\ IF res.raised # "none"
                          THEN /\ data' = capture_error(data, step_name, res)
                               /\ pc' = "done" /\ idx' = idx
                          ELSE /\ data' = res.doc
                               /\ IF stops_after(res.doc, step_name)
                                  THEN pc' = "post" /\ idx' = idx
                                  ELSE /\ pc' = after_wf(idx)
                                       /\ idx' = IF pc' = "wf" THEN idx + 1 ELSE idx
    /\ UNCHANGED <<mode, config, context, args, workflow, rq>>

\* after the loops: a start step that was never met, then the report
Finish ==
    /\ mode = "run" /\ pc = "post"
    /\ data' = IF IsSome(args.start_step) /\ ~saw_start
               THEN [data EXCEPT !.error.message = Some("start step not found"),
                                 !.error.step = args.start_step,
                                 !.error.type = Some("StepNotFound"),
                                 !.decision.status = "error"]
               ELSE data
    /\ pc' = "done"
    /\ UNCHANGED <<mode, config, context, args, idx, started, saw_start, workflow, trace, last, rq>>

\* ---------------------------------------------------------------- cmd_step (cli.py)
EmptyDoc ==
    [request |-> [explicit_version |-> FALSE, media_type |-> ""],
     work |-> [candidates |-> <<>>, selected |-> None, media_type |-> "", track_search |-> FALSE],
     decision |-> NoDecision,
     dispatch |-> [k \in DispatchKeys \cup {"http"} |-> "absent"],
     warnings |-> <<>>, error |-> NoError, search |-> {}, redacted |-> FALSE, comments |-> FALSE,
     dry_run |-> {}]

\* _finalize_output: a missing decision becomes complete, an error forces error
finalize_output(d) ==
    LET d1 == IF d.decision = NoDecision THEN [d EXCEPT !.decision.status = "complete"] ELSE d
    IN IF d1.error # NoError THEN [d1 EXCEPT !.decision.status = "error"] ELSE d1

\* the step is looked up in BUILTINS and called directly, with the context of the
\* command line and the step's configuration completed with _step only
CmdStep ==
    /\ mode = "step" /\ pc = "cmd"
    /\ IF args.name \notin BUILTINS
       THEN UNCHANGED <<data, trace, last>>
       ELSE LET cfg0 == step_cfg_for(config, args.name)
                step_cfg == [cfg0 EXCEPT !.step = IF IsSome(@) THEN @ ELSE Some(args.name)]
            IN \E inp \in InputsFor(step_cfg) :
                 LET r == call_builtin(args.name, data, step_cfg, context, inp)
                     res == StepResult(r, TRUE, IF r.raised = "none" THEN "ok" ELSE "error")
                     cls == classify_exception(r.raised)
                 IN /\ trace' = Append(trace, args.name)
                    /\ last' = CallRecord(args.name, step_cfg, "cmd", res, inp)
                    /\ data' = finalize_output(
                                 IF r.raised = "none" THEN r.doc
                                 ELSE [EmptyDoc EXCEPT !.error =
                                         [message |-> Some(r.raised), step |-> Some(args.name),
                                          type |-> Some(r.raised), code |-> Some(cls[1]),
                                          hint |-> Some(cls[2])]])
    /\ pc' = "done"
    /\ UNCHANGED <<mode, config, context, args, idx, started, saw_start, workflow, rq>>

\* ---------------------------------------------------------------- harnesses for the pure functions
NoRequest == [retries |-> 0, outcomes |-> <<>>, result |-> None]

\* one call of request_with_retry with the default retry_statuses
Request ==
    /\ mode = "retry" /\ pc = "call"
    /\ rq' = [rq EXCEPT !.result = Some(request_with_retry(rq.retries, None, rq.outcomes))]
    /\ pc' = "done"
    /\ UNCHANGED <<mode, data, config, context, args, idx, started, saw_start, workflow, trace, last>>

\* one call of decide on the document
Decide ==
    /\ mode = "decide" /\ pc = "decide"
    /\ data' = decide(data, step_cfg_for(config, "decide"), context)
    /\ pc' = "done"
    /\ UNCHANGED <<mode, config, context, args, idx, started, saw_start, workflow, trace, last, rq>>

\* ---------------------------------------------------------------- initial states
NoArgs == [workflow_name |-> None, start_step |-> None, end_step |-> None, name |-> ""]

PreStepLists == {<<>>, <<"identify_web_search", "resolve_track_release">>, <<"decide", "tagger">>}
StepLists == {<<"prowlarr_search", "redacted_enrich", "redacted_comments", "decide", "prowlarr_grab">>,
              <<"prowlarr_search", "decide", "http_dispatch", "notify", "announce">>,
              <<"decide", "dispatch_radarr", "tagger">>,
              <<"notify", "tagger">>,
              <<"nosuch">>}

Config(pre_steps, steps, retries, ase, asf) ==
    [pre_steps |-> pre_steps, workflows |-> Workflows(steps),
     steps |-> ConfiguredSteps(ase, asf), retries |-> retries]

Contexts(choices) == [choice_index : choices, dry_run : BOOLEAN, confirm : BOOLEAN]

\* whole runs under every context, and sliced runs (start_step / end_step)
WholeRunArgs == {[NoArgs EXCEPT !.workflow_name = w] : w \in {None, Some("music"), Some("tv")}}
SlicedRunArgs == {[NoArgs EXCEPT !.start_step = Some("decide")],
                  [NoArgs EXCEPT !.end_step = Some("decide")],
                  [NoArgs EXCEPT !.start_step = Some("nosuch")],
                  [NoArgs EXCEPT !.start_step = Some("http_dispatch"), !.end_step = Some("notify")],
                  [NoArgs EXCEPT !.start_step = Some("http_dispatch"),
                                 !.end_step = Some("prowlarr_search")],
                  [NoArgs EXCEPT !.start_step = Some("tagger"), !.end_step = Some("tagger")]}

\* documents handed to run_workflow: a fresh request, or the output of an earlier
\* run that ended in needs_choice
FreshDocs ==
    {[EmptyDoc EXCEPT !.request = [explicit_version |-> e, media_type |-> "music"]] : e \in BOOLEAN}
    \cup {EmptyDoc}
EarlierDocs ==
    {[EmptyDoc EXCEPT !.request.media_type = "music", !.work.media_type = "music",
                      !.work.candidates = <<Plain15, Plain15>>,
                      !.decision = decision_needs_choice("multiple_candidates", <<Plain15, Plain15>>)]}

InitRun ==
    /\ mode = "run"
    /\ config \in {Config(p, s, Some(n), TRUE, TRUE) :
                     p \in PreStepLists, s \in StepLists, n \in {0, MaxRetries}}
    /\ \/ /\ context \in Contexts({None, Some(0)})
          /\ args \in WholeRunArgs
          /\ data \in FreshDocs \cup EarlierDocs
       \/ /\ context \in {c \in Contexts({None}) : ~c.dry_run}
          /\ args \in SlicedRunArgs
          /\ data \in {d \in FreshDocs : d.request.media_type = "music" /\ ~d.request.explicit_version}
    /\ pc = IF config.pre_steps = <<>> THEN "select" ELSE "pre"
    /\ idx = 1
    /\ started = (args.start_step = None)
    /\ saw_start = FALSE
    /\ workflow = <<>>
    /\ trace = <<>>
    /\ last = NoCall
    /\ rq = [input |-> data]

\* documents handed to the step command: with or without a selection
InitStep ==
    /\ mode = "step"
    /\ config = Config(<<>>, <<>>, Some(1), TRUE, TRUE)
    /\ context \in Contexts({None, Some(0)})
    /\ args \in {[NoArgs EXCEPT !.name = n] : n \in BUILTINS \cup {"dispatch_radarr"}}
    /\ data \in {[EmptyDoc EXCEPT !.work.candidates = c, !.work.selected = sel] :
                   c \in RunCandLists, sel \in {None, Some(Flac120)}}
    /\ pc = "cmd"
    /\ idx = 1
    /\ started = TRUE
    /\ saw_start = FALSE
    /\ workflow = <<>>
    /\ trace = <<>>
    /\ last = NoCall
    /\ rq = NoRequest

Init == InitRun \/ InitStep

Next == PreStep \/ SelectWorkflow \/ WorkflowStep \/ Finish \/ CmdStep

Spec == Init /\ [][Next]_vars

\* request_with_retry on every sequence of transport outcomes
RECURSIVE SeqsOf(_, _)
SeqsOf(S, n) == IF n = 0 THEN {<<>>} ELSE {Append(q, x) : q \in SeqsOf(S, n - 1), x \in S}

RECURSIVE SeqsUpTo(_, _)
SeqsUpTo(S, n) == IF n = 0 THEN {<<>>} ELSE SeqsOf(S, n) \cup SeqsUpTo(S, n - 1)

InitRetry ==
    /\ mode = "retry"
    /\ rq \in {[NoRequest EXCEPT !.retries = n, !.outcomes = o] :
                 n \in 0..MaxRetries, o \in SeqsOf(Outcomes, MaxRetries + 2)}
    /\ config = Config(<<>>, <<>>, None, TRUE, TRUE)
    /\ context = [choice_index |-> None, dry_run |-> FALSE, confirm |-> FALSE]
    /\ args = NoArgs
    /\ data = EmptyDoc
    /\ pc = "call"
    /\ idx = 1
    /\ started = TRUE
    /\ saw_start = FALSE
    /\ workflow = <<>>
    /\ trace = <<>>
    /\ last = NoCall

NextRetry == Request

SpecRetry == InitRetry /\ [][NextRetry]_vars

\* decide on every document, context and configuration within the bounds
InitDecide ==
    /\ mode = "decide"
    /\ config \in {Config(<<>>, <<>>, None, ase, asf) : ase \in BOOLEAN, asf \in BOOLEAN}
    /\ context \in {[choice_index |-> c, dry_run |-> FALSE, confirm |-> FALSE] :
                      c \in {None} \cup {Some(i) : i \in (-1)..(MaxCands + 1)}}
    /\ args = NoArgs
    /\ data \in {[EmptyDoc EXCEPT !.request = [explicit_version |-> e, media_type |-> m],
                                  !.work.candidates = c, !.work.selected = sel] :
                   e \in BOOLEAN, m \in {"music", "book"},
                   c \in SeqsUpTo(Candidates, MaxCands), sel \in {None, Some(Flac120), Some(Plain15)}}
    /\ pc = "decide"
    /\ idx = 1
    /\ started = TRUE
    /\ saw_start = FALSE
    /\ workflow = <<>>
    /\ trace = <<>>
    /\ last = NoCall
    /\ rq = NoRequest

NextDecide == Decide

SpecDecide == InitDecide /\ [][NextDecide]_vars

\* rank_releases on every list of releases under each rule set, ranked a second
\* time or followed by decide
RankDoc(candidates, explicit_version) ==
    [EmptyDoc EXCEPT
        !.request = [explicit_version |-> explicit_version, media_type |-> "music"],
        !.work = [candidates |-> candidates, selected |-> None, media_type |-> "music",
                  track_search |-> FALSE, rejected_candidates |-> <<>>]]

RankConfig(rules) ==
    [pre_steps |-> <<>>, workflows |-> Workflows(<<"rank_releases", "decide">>),
     steps |-> ConfiguredSteps(TRUE, TRUE), retries |-> None, quality_rules |-> rules]

InitRank ==
    /\ mode = "rank"
    /\ config \in {RankConfig(r) : r \in RuleSets}
    /\ context \in {[choice_index |-> c, dry_run |-> FALSE, confirm |-> FALSE] : c \in {None, Some(0)}}
    /\ args = NoArgs
    /\ data \in {RankDoc(c, TRUE) : c \in SeqsUpTo(Releases, MaxRank)}
    /\ pc = "rank"
    /\ idx = 1
    /\ started = TRUE
    /\ saw_start = FALSE
    /\ workflow = <<"rank_releases", "decide">>
    /\ trace = <<>>
    /\ last = NoCall
    /\ rq = NoRequest

\* rank_releases on the document: the first time, or again on its own output
Rank ==
    /\ mode = "rank" /\ pc \in {"rank", "ranked"}
    /\ data' = rank_releases(data, step_cfg_for(config, "rank_releases"), config)
    /\ pc' = IF pc = "rank" THEN "ranked" ELSE "reranked"
    /\ trace' = Append(trace, "rank_releases")
    /\ UNCHANGED <<mode, config, context, args, idx, started, saw_start, workflow, last, rq>>

\* the step after rank_releases in the workflow
DecideRanked ==
    /\ mode = "rank" /\ pc = "ranked"
    /\ data' = decide(data, step_cfg_for(config, "decide"), context)
    /\ pc' = "decided"
    /\ trace' = Append(trace, "decide")
    /\ UNCHANGED <<mode, config, context, args, idx, started, saw_start, workflow, last, rq>>

NextRank == Rank \/ DecideRanked

SpecRank == InitRank /\ [][NextRank]_vars

\* ---------------------------------------------------------------- properties
InRun == mode = "run" /\ last.n > 0

Gated == context.dry_run \/ ~context.confirm

LastCfg == step_cfg_for(config, last.step)

LastDispatchKey ==
    dispatch_key_of(last.step, LastCfg,
                    get_step_metadata(IF IsSome(LastCfg.builtin) THEN Val(LastCfg.builtin)
                                      ELSE last.step))

\* C1: run_step invokes the body of a side-effect step (builtin or external
\* command) only when dry_run = false and confirm = true; in every other
\* combination the step is skipped and its body is not invoked.
C1_BodyOnlyWhenConfirmed ==
    (InRun /\ last.side_effect /\ Gated) => (~last.body /\ last.end = "skipped")

\* C2: a side-effect step (prowlarr_grab, http_dispatch, arr_dispatch), run by
\* run_step or by the step command, makes no transport call when dry_run = true
\* or confirm = false.
C2_NoTransportWhenGated ==
    (last.n > 0 /\ last.step \in SideEffectBuiltins \cup {"dispatch_radarr"} /\ Gated)
        => last.calls = 0

\* C2, run_step only: inside a workflow the gated side-effect builtins make no
\* transport call.
C2_NoTransportWhenGatedInRun ==
    (InRun /\ last.step \in SideEffectBuiltins \cup {"dispatch_radarr"} /\ Gated)
        => last.calls = 0

\* C3: after run_step ran a side-effect step with dry_run = true or
\* confirm = false, the returned document has a dispatch record under the
\* step's dispatch key with status skipped.
C3_SkippedRecordWhenGated ==
    (InRun /\ last.side_effect /\ Gated /\ last.raised = "none")
        => data.dispatch[LastDispatchKey] = "skipped"

\* C3, the case the runner gates itself: without confirmation and outside
\* dry-run the dispatch record is skipped.
C3_SkippedRecordWhenUnconfirmed ==
    (InRun /\ last.side_effect /\ ~context.confirm /\ ~context.dry_run)
        => (last.raised = "none" /\ data.dispatch[LastDispatchKey] = "skipped")

\* C4 as claimed: once decision.status is selected, needs_choice or error, no
\* later step or runner action of the run changes it.
C4_StatusNeverChanges ==
    [][(mode = "run" /\ data.decision.status \in {"selected", "needs_choice", "error"})
          => data'.decision.status = data.decision.status]_vars

\* C4 as amended: decision.status is final once the runner has recorded an
\* error, or once a workflow step has returned with needs_choice; selected is
\* not final.
C4_FinalStatus ==
    [][(mode = "run" /\ (data.error # NoError
                         \/ (last.phase = "wf" /\ data.decision.status = "needs_choice")))
          => data'.decision.status = data.decision.status]_vars

\* a selection made earlier in the run, replaced by error when a later step raised
C4_Witness ==
    /\ mode = "run" /\ pc = "done" /\ data.error # NoError
    /\ data.decision.status = "error" /\ IsSome(data.decision.selected)
    /\ last.raised # "none"

\* a workflow step left needs_choice and the run ended with it
C4_WitnessNeedsChoice ==
    /\ mode = "run" /\ pc = "done" /\ last.phase = "wf" /\ last.step = "decide"
    /\ data.decision.status = "needs_choice"

\* C5: after a step (pre-step or workflow step) leaves decision.status equal to
\* needs_choice or error, run_workflow executes no further step.
C5_NoStepAfterTerminal ==
    [][(InRun /\ data.decision.status \in {"needs_choice", "error"}) => trace' = trace]_vars

\* C6: when a step raises, run_workflow executes no later step and returns the
\* document built so far with decision.status = error and error.message,
\* error.step (the failing step), error.type, error.code and error.hint set.
C6_RaiseAborts ==
    /\ []((InRun /\ last.raised # "none")
            => /\ pc = "done"
               /\ data.decision.status = "error"
               /\ data.error.step = Some(last.step)
               /\ data.error.message # None /\ data.error.type # None
               /\ data.error.code # None /\ data.error.hint # None)
    /\ [][(mode = "run" /\ last'.n > last.n /\ last'.raised # "none")
            => /\ data'.search = data.search
               /\ Len(data'.work.candidates) = Len(data.work.candidates)
               /\ data'.work.selected = data.work.selected]_vars

\* a run aborted by a raising step after earlier steps had filled the document
C6_Witness ==
    /\ InRun /\ last.raised # "none" /\ pc = "done" /\ Len(trace) > 2
    /\ data.work.candidates # <<>> /\ data.decision.status = "error"

\* C8: a step configured with retries = N whose transport times out on every
\* attempt aborts the run: decision.status = error, the error code names a
\* timeout and no later step is executed.
C8_TimeoutAborts ==
    (InRun /\ last.timeouts)
        => /\ last.calls = retries_of(merged_cfg(last.step, LastCfg, config)) + 1
           /\ last.raised = "Timeout" /\ pc = "done"
           /\ data.decision.status = "error" /\ data.error.code = Some("TIMEOUT")

\* C9: at a read-only provider step a response that is not JSON or has the
\* wrong shape never aborts the run: the step returns and no error is recorded.
C9_MalformedNeverAborts ==
    (InRun /\ last.step \in ProviderSteps /\ last.malformed)
        => (last.raised = "none" /\ data.error = NoError)

\* ---------------------------------------------------------------- properties of request_with_retry
Retryable(o) == o.exc # "none" \/ o.status \in DefaultRetryStatuses

\* C7: request_with_retry makes at most retries + 1 transport calls, makes a
\* further call only after an exception or a response with a retry status, and
\* when every attempt fails makes exactly retries + 1 calls and surfaces the
\* failure (the exception, or the response with the retry status).
C7_BoundedRetry ==
    (mode = "retry" /\ IsSome(rq.result)) =>
        LET r == Val(rq.result) IN
        /\ r.calls >= 1 /\ r.calls <= rq.retries + 1
        /\ \A k \in 1..(r.calls - 1) : Retryable(rq.outcomes[k])
        /\ ~Retryable(rq.outcomes[r.calls]) => (r.exc = "none" /\ r.status = rq.outcomes[r.calls].status)
        /\ (\A k \in 1..(rq.retries + 1) : Retryable(rq.outcomes[k]))
              => /\ r.calls = rq.retries + 1
                 /\ r.exc = rq.outcomes[r.calls].exc
                 /\ (r.exc # "none" \/ r.status \in DefaultRetryStatuses)

\* every attempt timed out: MaxRetries + 1 calls and the timeout is raised
C7_Witness ==
    /\ mode = "retry" /\ IsSome(rq.result) /\ rq.retries = MaxRetries
    /\ Val(rq.result).calls = MaxRetries + 1 /\ Val(rq.result).exc = "Timeout"
    /\ \A k \in 1..(MaxRetries + 1) : rq.outcomes[k].exc = "Timeout"

\* ---------------------------------------------------------------- properties of decide
\* C10: with no selection on the document and a choice index within range of
\* the candidate list, decide selects the candidate at that index, whatever
\* explicit_version, the auto-select settings, the media type and the number
\* of candidates are.
C10_ExplicitChoiceWins ==
    [][(/\ mode = "decide" /\ pc = "decide" /\ data.work.selected = None
        /\ IsSome(context.choice_index)
        /\ 0 <= Val(context.choice_index)
        /\ Val(context.choice_index) < Len(data.work.candidates))
          => /\ data'.decision.status = "selected"
             /\ data'.decision.selected = Some(data.work.candidates[Val(context.choice_index) + 1])
             /\ data'.work.selected = data'.decision.selected]_vars

\* choice 1 of two candidates won over explicit_version and over auto-format,
\* both of which would have picked another candidate (no preselection is a
\* v0 candidate)
C10_Witness ==
    /\ mode = "decide" /\ pc = "done" /\ context.choice_index = Some(1)
    /\ Len(data.work.candidates) = 2
    /\ detect_format(data.work.candidates[1]) = "flac"
    /\ detect_format(data.work.candidates[2]) = "v0"
    /\ data.request.explicit_version /\ LastCfg.auto_select_explicit
    /\ data.decision.status = "selected"
    /\ data.decision.selected = Some(data.work.candidates[2])

\* the document, context and step configuration decide is about to run on
DecideRuns == mode = "decide" /\ pc = "decide"

DecideCfg == step_cfg_for(config, "decide")

NoSelection == data.work.selected = None

ChoiceInRange ==
    /\ IsSome(context.choice_index)
    /\ Val(context.choice_index) >= 0
    /\ Val(context.choice_index) + 1 <= Len(data.work.candidates)

ExplicitRule ==
    data.request.explicit_version /\ DecideCfg.auto_select_explicit /\ Len(data.work.candidates) >= 1

FormatRule ==
    /\ DecideCfg.auto_select_formats
    /\ (IF data.work.media_type # "" THEN data.work.media_type ELSE data.request.media_type) = "music"
    /\ Len(data.work.candidates) > 1
    /\ \E i \in 1..Len(data.work.candidates) : detect_format(data.work.candidates[i]) # "none"

\* flac before v0 before 320 before everything else
TierOf(c) ==
    CASE detect_format(c) = "flac" -> 1 [] detect_format(c) = "v0" -> 2
      [] detect_format(c) = "320" -> 3 [] OTHER -> 4

\* C11: when decide selects a candidate because of an explicit in-range choice
\* index, the decision carries reason explicit_choice.
C11_ChoiceReason ==
    [][(DecideRuns /\ NoSelection /\ ChoiceInRange)
          => data'.decision.reason = Some("explicit_choice")]_vars

\* C12: when work.selected exists, decide adopts it: decision.status = selected
\* with that selection, work.selected and work.candidates unchanged, whatever
\* the choice index and the candidate list are.
C12_AdoptsSelection ==
    [][(DecideRuns /\ IsSome(data.work.selected))
          => /\ data'.decision.status = "selected"
             /\ data'.decision.selected = data.work.selected
             /\ data'.work.selected = data.work.selected
             /\ data'.work.candidates = data.work.candidates]_vars

\* a selection that is not in the two-candidate list was adopted although a
\* choice index in range was supplied
C12_Witness ==
    /\ mode = "decide" /\ pc = "done" /\ Len(data.work.candidates) = 2
    /\ context.choice_index = Some(0)
    /\ data.decision.status = "selected" /\ data.decision.selected = Some(Flac120)
    /\ data.work.selected = Some(Flac120) /\ data.decision.index = None
    /\ \A i \in 1..2 : data.work.candidates[i] # Flac120

\* C13: without a selection and without an in-range choice index, when
\* request.explicit_version is set, auto_select_explicit is enabled and there
\* are candidates, decide selects the first candidate (index 0) with reason
\* explicit_version, before auto-format selection and before needs_choice.
C13_ExplicitVersion ==
    [][(DecideRuns /\ NoSelection /\ ~ChoiceInRange /\ ExplicitRule)
          => /\ data'.decision.status = "selected"
             /\ data'.decision.selected = Some(data.work.candidates[1])
             /\ data'.decision.index = Some(0)
             /\ data'.decision.reason = Some("explicit_version")
             /\ data'.work.selected = Some(data.work.candidates[1])]_vars

\* the first of two candidates was selected for explicit_version although
\* auto-format selection would have taken the second, a flac
C13_Witness ==
    /\ mode = "decide" /\ pc = "done" /\ Len(data.work.candidates) = 2
    /\ data.decision.reason = Some("explicit_version")
    /\ data.decision.selected = Some(data.work.candidates[1])
    /\ DecideCfg.auto_select_formats /\ data.request.media_type = "music"
    /\ detect_format(data.work.candidates[1]) = "none"
    /\ detect_format(data.work.candidates[2]) = "flac"

\* C14: when no earlier rule applies, auto-format selection is enabled, the
\* media type is music, there is more than one candidate and one of them has a
\* known format, decide selects with reason auto_format a candidate of the best
\* available tier that has the highest score of that tier, and decision.index
\* is its position in the list.
C14_AutoFormat ==
    [][(DecideRuns /\ NoSelection /\ ~ChoiceInRange /\ ~ExplicitRule /\ FormatRule)
          => /\ data'.decision.status = "selected"
             /\ data'.decision.reason = Some("auto_format")
             /\ IsSome(data'.decision.selected) /\ IsSome(data'.decision.index)
             /\ LET sel == Val(data'.decision.selected)
                    k == Val(data'.decision.index)
                    cands == data.work.candidates
                IN /\ k >= 0 /\ k < Len(cands) /\ cands[k + 1] = sel
                   /\ TierOf(sel) <= 3
                   /\ \A i \in 1..Len(cands) : TierOf(cands[i]) >= TierOf(sel)
                   /\ \A i \in 1..Len(cands) :
                         TierOf(cands[i]) = TierOf(sel) => cands[i].score <= sel.score
                   /\ data'.work.selected = Some(sel)]_vars

\* the second candidate, the better-scored of two flacs, was selected for its format
C14_Witness ==
    /\ mode = "decide" /\ pc = "done" /\ Len(data.work.candidates) = 2
    /\ data.decision.reason = Some("auto_format") /\ data.decision.index = Some(1)
    /\ detect_format(data.work.candidates[1]) = "flac"
    /\ detect_format(data.work.candidates[2]) = "flac"
    /\ data.work.candidates[1].score < data.work.candidates[2].score
    /\ data.decision.selected = Some(data.work.candidates[2])

\* C15 as claimed: with exactly one candidate and no selection, the decision is
\* selected with index 0 and no reason.
C15_SingleNoReason ==
    [][(DecideRuns /\ NoSelection /\ Len(data.work.candidates) = 1)
          => /\ data'.decision.status = "selected"
             /\ data'.decision.index = Some(0)
             /\ data'.decision.reason = None]_vars

\* C15 as amended: with exactly one candidate and no selection, the decision is
\* selected with that candidate and index 0; it has no reason, except that the
\* reason is explicit_version when the explicit-version rule applies and no
\* choice index in range was supplied.
C15_SingleSelected ==
    [][(DecideRuns /\ NoSelection /\ Len(data.work.candidates) = 1)
          => /\ data'.decision.status = "selected"
             /\ data'.decision.selected = Some(data.work.candidates[1])
             /\ data'.decision.index = Some(0)
             /\ data'.decision.reason =
                    (IF ExplicitRule /\ ~ChoiceInRange THEN Some("explicit_version") ELSE None)]_vars

\* the only candidate (a v0, so not a selection the document came with) was
\* selected without a reason
C15_Witness ==
    /\ mode = "decide" /\ pc = "done" /\ Len(data.work.candidates) = 1
    /\ context.choice_index = None /\ ~data.request.explicit_version
    /\ detect_format(data.work.candidates[1]) = "v0"
    /\ data.decision.status = "selected" /\ data.decision.index = Some(0)
    /\ data.decision.reason = None
    /\ data.decision.selected = Some(data.work.candidates[1])

\* C16: without a selection and with no selection rule applying, the decision
\* is needs_choice, its options are the candidate list and work.selected stays
\* unset: no_candidates for the empty list, whatever the choice index, and
\* multiple_candidates for more than one candidate.
C16_NeedsChoice ==
    [][(DecideRuns /\ NoSelection)
          => /\ (Len(data.work.candidates) = 0
                   => /\ data'.decision.status = "needs_choice"
                      /\ data'.decision.reason = Some("no_candidates")
                      /\ data'.decision.options = Some(<<>>)
                      /\ data'.decision.selected = None
                      /\ data'.work.selected = None)
             /\ ((Len(data.work.candidates) > 1 /\ ~ChoiceInRange /\ ~ExplicitRule /\ ~FormatRule)
                   => /\ data'.decision.status = "needs_choice"
                      /\ data'.decision.reason = Some("multiple_candidates")
                      /\ data'.decision.options = Some(data.work.candidates)
                      /\ data'.decision.selected = None
                      /\ data'.work.selected = None)]_vars

\* two candidates were offered although a choice index (out of range) was supplied
C16_Witness ==
    /\ mode = "decide" /\ pc = "done" /\ Len(data.work.candidates) = 2
    /\ context.choice_index = Some(2)
    /\ data.decision.status = "needs_choice"
    /\ data.decision.reason = Some("multiple_candidates")
    /\ data.decision.options = Some(data.work.candidates)
    /\ data.work.selected = None

\* no candidates: no_candidates although a choice index was supplied
C16_WitnessEmpty ==
    /\ mode = "decide" /\ pc = "done" /\ data.work.candidates = <<>>
    /\ context.choice_index = Some(0) /\ data.request.explicit_version
    /\ data.decision.status = "needs_choice" /\ data.decision.reason = Some("no_candidates")
    /\ data.decision.options = Some(<<>>) /\ data.work.selected = None

\* ---------------------------------------------------------------- properties of rank_releases
RankRules == config.quality_rules

Rejects(c) == \E i \in 1..Len(RankRules.reject) : RankRules.reject[i] \in c.title

SameRelease(a, b) == a.title = b.title /\ a.seeders = b.seeders /\ a.size = b.size

TitlesOf(seq) == [i \in 1..Len(seq) |-> seq[i].title]

\* C17: after rank_releases no candidate of work.candidates is rejected, every
\* candidate that ranking rejected is in work.rejected_candidates, and the step
\* that follows neither moves a rejected candidate back nor drops the list,
\* even when work.candidates is empty.
C17_RejectedStayOut ==
    [][mode = "rank"
          => /\ \A i \in 1..Len(data'.work.candidates) :
                    /\ ~data'.work.candidates[i].rejected
                    /\ ~Rejects(data'.work.candidates[i])
             /\ pc = "rank"
                  => /\ \A i \in 1..Len(data.work.candidates) :
                            Rejects(data.work.candidates[i])
                              => \E j \in 1..Len(data'.work.rejected_candidates) :
                                    /\ SameRelease(data'.work.rejected_candidates[j],
                                                   data.work.candidates[i])
                                    /\ data'.work.rejected_candidates[j].rejected
                     /\ Len(data'.work.candidates) + Len(data'.work.rejected_candidates)
                            = Len(data.work.candidates)
             /\ pc # "rank"
                  => data'.work.rejected_candidates = data.work.rejected_candidates]_vars

\* decide ran after a ranking that kept one release and rejected two
C17_Witness ==
    /\ mode = "rank" /\ pc = "decided"
    /\ Len(data.work.candidates) = 1 /\ Len(data.work.rejected_candidates) = 2
    /\ data.decision.status = "selected"
    /\ \A j \in 1..2 : data.work.rejected_candidates[j].rejected

\* C18: when rank_releases rejects every candidate, work.candidates is empty and
\* the rejected ones are kept apart; decide then gives needs_choice with reason
\* no_candidates and empty options, and the rejected candidates stay in
\* work.rejected_candidates.
C18_AllRejected ==
    [][mode = "rank"
          => /\ (/\ pc = "rank" /\ data.work.candidates # <<>>
                 /\ \A i \in 1..Len(data.work.candidates) : Rejects(data.work.candidates[i]))
                  => /\ data'.work.candidates = <<>>
                     /\ TitlesOf(data'.work.rejected_candidates) = TitlesOf(data.work.candidates)
             /\ (/\ pc = "ranked" /\ pc' = "decided" /\ data.work.candidates = <<>>)
                  => /\ data'.decision.status = "needs_choice"
                     /\ data'.decision.reason = Some("no_candidates")
                     /\ data'.decision.options = Some(<<>>)
                     /\ data'.decision.selected = None
                     /\ data'.work.selected = None
                     /\ data'.work.rejected_candidates = data.work.rejected_candidates]_vars

\* every release was rejected; decide, given choice 0 and an explicit version,
\* offered nothing
C18_Witness ==
    /\ mode = "rank" /\ pc = "decided" /\ data.work.candidates = <<>>
    /\ Len(data.work.rejected_candidates) >= 2
    /\ context.choice_index = Some(0) /\ data.request.explicit_version
    /\ data.decision.status = "needs_choice" /\ data.decision.reason = Some("no_candidates")
    /\ data.decision.options = Some(<<>>)

\* C19 as claimed: for every candidate list and rule set, ranking the output of
\* rank_releases again under the same rules gives the same order and scores.
C19_Idempotent ==
    [][(mode = "rank" /\ pc = "ranked" /\ pc' = "reranked")
          => data'.work.candidates = data.work.candidates]_vars

\* no numeric field of the rules reads the rank that ranking writes
ReadsNoRank ==
    \A i \in 1..Len(RankRules.numeric_fields) : RankRules.numeric_fields[i].path # "rank.score"

\* C19 as amended: under a rule set whose numeric fields do not read the
\* candidate's rank, ranking the output of rank_releases again gives the same
\* order and scores, and leaves work.rejected_candidates as it was.
C19_IdempotentReadsNoRank ==
    [][(mode = "rank" /\ pc = "ranked" /\ pc' = "reranked" /\ ReadsNoRank)
          => /\ data'.work.candidates = data.work.candidates
             /\ data'.work.rejected_candidates = data.work.rejected_candidates]_vars

\* a list of differently scored releases, ranked twice under rules with a
\* numeric field, a release having been rejected the first time
C19_Witness ==
    /\ mode = "rank" /\ pc = "reranked" /\ ReadsNoRank
    /\ RankRules.numeric_fields # <<>>
    /\ Len(data.work.candidates) = 2 /\ data.work.rejected_candidates # <<>>
    /\ data.work.candidates[1].score > data.work.candidates[2].score
    /\ data.work.candidates[2].score > 0

\* a sorts strictly before b: score, then seeders, then size, each descending
SortsBefore(a, b) ==
    \/ a.score > b.score
    \/ a.score = b.score /\ a.seeders > b.seeders
    \/ a.score = b.score /\ a.seeders = b.seeders /\ a.size > b.size

\* C20: after rank_releases without sort specs, work.candidates is ordered by
\* score, then seeders, then size, each descending, and candidates equal on all
\* three keep their input order.
C20_DefaultOrder ==
    [][(mode = "rank" /\ pc = "rank" /\ RankRules.sort_fields = None)
          => LET out == data'.work.candidates
                 inp == data.work.candidates
                 kept(c) == ~Rejects(c)
             IN /\ \A i, j \in 1..Len(out) : i < j => ~SortsBefore(out[j], out[i])
                /\ \A k \in 1..Len(out) :
                      LET tied(c) == ~SortsBefore(c, out[k]) /\ ~SortsBefore(out[k], c)
                          tied_in(c) == \E m \in 1..Len(out) : SameRelease(out[m], c) /\ tied(out[m])
                      IN TitlesOf(SelectSeq(out, tied)) = TitlesOf(SelectSeq(SelectSeq(inp, kept), tied_in))]_vars

\* three ranked releases: the first by score, the other two equal on score
\* and seeders and ordered by size
C20_Witness ==
    /\ mode = "rank" /\ pc = "ranked" /\ RankRules.sort_fields = None
    /\ Len(data.work.candidates) = 3
    /\ data.work.candidates[1].score > data.work.candidates[2].score
    /\ data.work.candidates[2].score = data.work.candidates[3].score
    /\ data.work.candidates[2].seeders = data.work.candidates[3].seeders
    /\ data.work.candidates[2].size > data.work.candidates[3].size

\* two releases equal on the three keys and different in title, kept in input order
C20_WitnessTie ==
    /\ mode = "rank" /\ pc = "ranked" /\ RankRules.sort_fields = None
    /\ Len(data.work.candidates) = 2
    /\ ~SortsBefore(data.work.candidates[1], data.work.candidates[2])
    /\ ~SortsBefore(data.work.candidates[2], data.work.candidates[1])
    /\ data.work.candidates[1].title # data.work.candidates[2].title

\* ---------------------------------------------------------------------
\* Title matching and consensus (steps/builtin.py)
\* ---------------------------------------------------------------------

\* bounds of the matching models
MaxTokens == 3
MaxResults == 3

\* a match score is a fraction of 1; the model counts it in units of 1/Unit,
\* which every division by a token count or a bucket count leaves whole
Unit == 720

Max(a, b) == IF a >= b THEN a ELSE b

\* the variables a single-function model leaves alone
Idle ==
    /\ config = Config(<<>>, <<>>, None, TRUE, TRUE)
    /\ context = [choice_index |-> None, dry_run |-> FALSE, confirm |-> FALSE]
    /\ args = NoArgs
    /\ data = EmptyDoc
    /\ idx = 1
    /\ started = TRUE
    /\ saw_start = FALSE
    /\ workflow = <<>>
    /\ trace = <<>>
    /\ last = NoCall

\* the score with the query's token count as the denominator
match_score_over_query(candidate_tokens, query_tokens) ==
    IF candidate_tokens = {} \/ query_tokens = {} THEN 0
    ELSE (Cardinality(candidate_tokens \cap query_tokens) * Unit)
            \div Max(Cardinality(query_tokens), 1)

match_score(candidate_tokens, query_tokens) ==
    IF candidate_tokens = {} \/ query_tokens = {} THEN 0
    ELSE (Cardinality(candidate_tokens \cap query_tokens) * Unit)
            \div Max(Cardinality(candidate_tokens), 1)

TokenPool == {"aa", "t1", "t2", "live"}
TokenSets == {s \in SUBSET TokenPool : Cardinality(s) <= MaxTokens}

\* one call of _match_score
MatchScore ==
    /\ mode = "match" /\ pc = "call"
    /\ rq' = [rq EXCEPT !.result = Some(match_score(rq.candidate_tokens, rq.query_tokens))]
    /\ pc' = "done"
    /\ UNCHANGED <<mode, data, config, context, args, idx, started, saw_start, workflow, trace, last>>

InitMatch ==
    /\ mode = "match"
    /\ rq \in [candidate_tokens : TokenSets, query_tokens : TokenSets, result : {None}]
    /\ pc = "call"
    /\ Idle

NextMatch == MatchScore

SpecMatch == InitMatch /\ [][NextMatch]_vars

\* the fields _extract_fields_from_title finds in a result title: an empty
\* artist or title is a field it did not find, year 0 is no year
Fields == [artist : {"aa", ""}, title : {"t1", "t2"}, year : {0, 2020}]

\* _tokenize of "artist title"
tokens_of(fields) == {fields.artist, fields.title} \ {""}

\* the query: its tokens and the year _extract_year finds in it
Queries == {[tokens |-> {"aa", "t1"}, year |-> 0],
            [tokens |-> {"aa", "t1", "2019"}, year |-> 2019]}

\* the results the loop reads
limited(results, limit) ==
    SubSeq(results, 1, IF Max(limit, 1) < Len(results) THEN Max(limit, 1) ELSE Len(results))

\* does the loop count this result (music)
counted(fields, query, min_match_ratio, min_token_matches) ==
    /\ ~(query.year # 0 /\ fields.year # 0 /\ fields.year # query.year)
    /\ fields.artist # "" /\ fields.title # ""
    /\ ~ \/ match_score(tokens_of(fields), query.tokens) < min_match_ratio
         \/ Cardinality(tokens_of(fields) \cap query.tokens) < min_token_matches

\* the buckets in insertion order, each with the fields of its first result
RECURSIVE scored_buckets(_, _, _, _)
scored_buckets(results, query, min_match_ratio, min_token_matches) ==
    IF results = <<>> THEN <<>>
    ELSE LET n == Len(results)
             before == scored_buckets(SubSeq(results, 1, n - 1), query,
                                      min_match_ratio, min_token_matches)
             fields == results[n]
             item_score == match_score(tokens_of(fields), query.tokens)
             hit == {i \in 1..Len(before) : before[i].fields = fields}
         IN IF ~counted(fields, query, min_match_ratio, min_token_matches) THEN before
            ELSE IF hit = {}
                 THEN Append(before, [fields |-> fields, count |-> 1, score_sum |-> item_score])
                 ELSE [i \in 1..Len(before) |->
                          IF i \in hit
                          THEN [before[i] EXCEPT !.count = @ + 1, !.score_sum = @ + item_score]
                          ELSE before[i]]

\* max over the buckets by (count, score_sum): the first of the greatest
best_bucket(scored) ==
    LET greater(a, b) == a.count > b.count \/ (a.count = b.count /\ a.score_sum > b.score_sum)
        i == CHOOSE i \in 1..Len(scored) :
                 /\ \A j \in 1..Len(scored) : ~greater(scored[j], scored[i])
                 /\ \A j \in 1..(i - 1) : greater(scored[i], scored[j])
    IN scored[i]

\* acceptance only above min_confirmations
accepted_above(best_count, avg_score, min_confirmations, single_match_ratio) ==
    best_count > min_confirmations \/ (best_count = 1 /\ avg_score >= single_match_ratio)

\* acceptance only at min_confirmations
accepted_exactly(best_count, avg_score, min_confirmations, single_match_ratio) ==
    best_count = min_confirmations \/ (best_count = 1 /\ avg_score >= single_match_ratio)

accepted(best_count, avg_score, min_confirmations, single_match_ratio) ==
    best_count >= min_confirmations \/ (best_count = 1 /\ avg_score >= single_match_ratio)

\* the pair (fields, meta); NoFields and None stand for the two empty mappings
consensus_fields_from_results(results, query, limit, thresholds) ==
    LET min_match_ratio == thresholds.min_match_ratio
        min_token_matches == thresholds.min_token_matches
        min_confirmations == thresholds.min_confirmations
        single_match_ratio == thresholds.single_match_ratio
        scored == scored_buckets(limited(results, limit), query,
                                 min_match_ratio, min_token_matches)
    IN IF query.tokens = {} \/ scored = <<>>
       THEN [fields |-> None, meta |-> None]
       ELSE LET best == best_bucket(scored)
                best_count == best.count
                avg_score == best.score_sum \div Max(best_count, 1)
                acc == accepted(best_count, avg_score, min_confirmations, single_match_ratio)
            IN [fields |-> IF acc THEN Some(best.fields) ELSE None,
                meta |-> Some([count |-> best_count, avg_score |-> avg_score,
                               accepted |-> acc])]

\* one call of _consensus_fields_from_results
Consensus ==
    /\ mode = "consensus" /\ pc = "call"
    /\ rq' = [rq EXCEPT !.result = Some(consensus_fields_from_results(
                  rq.results, rq.query, rq.limit,
                  [min_match_ratio |-> rq.min_match_ratio,
                   min_token_matches |-> rq.min_token_matches,
                   min_confirmations |-> rq.min_confirmations,
                   single_match_ratio |-> rq.single_match_ratio]))]
    /\ pc' = "done"
    /\ UNCHANGED <<mode, data, config, context, args, idx, started, saw_start, workflow, trace, last>>

\* thresholds in units of 1/Unit: 0.4, 0.5 and 0.75
Ratio40 == (2 * Unit) \div 5
Ratio50 == Unit \div 2
Ratio75 == (3 * Unit) \div 4

InitConsensus ==
    /\ mode = "consensus"
    /\ rq \in [results : SeqsUpTo(Fields, MaxResults), query : Queries,
               limit : {0, MaxResults}, min_match_ratio : {Ratio40},
               min_token_matches : {1, 2}, min_confirmations : 1..3,
               single_match_ratio : {Ratio50, Ratio75}, result : {None}]
    /\ pc = "call"
    /\ Idle

NextConsensus == Consensus

SpecConsensus == InitConsensus /\ [][NextConsensus]_vars


\* ---------------------------------------------------------------------
\* Properties of matching and consensus
\* ---------------------------------------------------------------------

ConsensusDone == mode = "consensus" /\ pc = "done" /\ IsSome(Val(rq.result).meta)
ConsensusMeta == Val(Val(rq.result).meta)
ConsensusFields == Val(rq.result).fields

\* how many of the results read are counted for the work f
Confirmations(f) ==
    LET read == limited(rq.results, rq.limit)
    IN Cardinality({i \in 1..Len(read) :
           read[i] = f /\ counted(f, rq.query, rq.min_match_ratio, rq.min_token_matches)})

\* C21: the winning bucket's fields are accepted if and only if its count is at
\* least min_confirmations, or its count is 1 and its average score is at least
\* single_match_ratio; when they are not accepted the returned fields are empty
\* and the metadata carries accepted = false with the bucket's count and
\* average score.
C21_ConsensusAcceptance ==
    ConsensusDone =>
        LET m == ConsensusMeta
        IN /\ m.accepted <=> \/ m.count >= rq.min_confirmations
                             \/ m.count = 1 /\ m.avg_score >= rq.single_match_ratio
           /\ ~m.accepted => ConsensusFields = None
           /\ \E f \in Fields :
                 /\ Confirmations(f) = m.count
                 /\ \A g \in Fields : Confirmations(g) <= m.count
                 /\ m.avg_score * Cardinality(tokens_of(f))
                       = Cardinality(tokens_of(f) \cap rq.query.tokens) * Unit
                 /\ m.accepted => ConsensusFields = Some(f)

\* two agreeing results under min_confirmations = 3: not accepted
C21_Witness ==
    /\ ConsensusDone
    /\ ~ConsensusMeta.accepted /\ ConsensusMeta.count = 2 /\ rq.min_confirmations = 3
    /\ ConsensusFields = None

\* one strong result accepted below min_confirmations
C21_WitnessSingle ==
    /\ ConsensusDone
    /\ ConsensusMeta.accepted /\ ConsensusMeta.count = 1 /\ rq.min_confirmations = 2
    /\ IsSome(ConsensusFields)

\* one weak result not accepted
C21_WitnessWeak ==
    /\ ConsensusDone
    /\ ~ConsensusMeta.accepted /\ ConsensusMeta.count = 1
    /\ ConsensusMeta.avg_score < rq.single_match_ratio

\* C22 as stated: with the thresholds and the average score fixed, a bucket with
\* a larger count than an accepted bucket is accepted too.
C22_Monotonic ==
    (ConsensusDone /\ ConsensusMeta.accepted) =>
        \A c \in (ConsensusMeta.count + 1)..(MaxResults + 1) :
            accepted(c, ConsensusMeta.avg_score, rq.min_confirmations, rq.single_match_ratio)

\* C22 amended: acceptance is monotonic in count from min_confirmations on, and
\* everywhere when min_confirmations is at most 2. (A single strong result is
\* accepted below min_confirmations, two such results under
\* min_confirmations = 3 are not.)
C22_MonotonicFromMin ==
    (/\ ConsensusDone /\ ConsensusMeta.accepted
     /\ (ConsensusMeta.count >= rq.min_confirmations \/ rq.min_confirmations <= 2)) =>
        \A c \in (ConsensusMeta.count + 1)..(MaxResults + 1) :
            accepted(c, ConsensusMeta.avg_score, rq.min_confirmations, rq.single_match_ratio)

\* a bucket accepted at min_confirmations, with larger counts in range
C22_Witness ==
    /\ ConsensusDone /\ ConsensusMeta.accepted
    /\ ConsensusMeta.count = rq.min_confirmations /\ ConsensusMeta.count = 2

\* a single strong result accepted under min_confirmations = 3
C22_WitnessSingle ==
    /\ ConsensusDone /\ ConsensusMeta.accepted
    /\ ConsensusMeta.count = 1 /\ rq.min_confirmations = 3

\* C23: _match_score(C, Q) is |C \cap Q| / max(|C|, 1), is 0 when C or Q is
\* empty, and lies between 0 and 1.
C23_MatchScore ==
    (mode = "match" /\ pc = "done") =>
        LET C == rq.candidate_tokens
            Q == rq.query_tokens
            r == Val(rq.result)
        IN /\ r * Max(Cardinality(C), 1) = Cardinality(C \cap Q) * Unit
           /\ (C = {} \/ Q = {}) => r = 0
           /\ 0 <= r /\ r <= Unit

\* a partial overlap: a score strictly between 0 and 1, and |C| # |Q|
C23_Witness ==
    /\ mode = "match" /\ pc = "done"
    /\ Val(rq.result) > 0 /\ Val(rq.result) < Unit
    /\ Cardinality(rq.candidate_tokens) # Cardinality(rq.query_tokens)

\* an empty candidate set against a non-empty query
C23_WitnessEmpty ==
    /\ mode = "match" /\ pc = "done"
    /\ rq.candidate_tokens = {} /\ rq.query_tokens # {} /\ Val(rq.result) = 0

\* ---------------------------------------------------------------------
\* filter_match (steps/builtin.py)
\* ---------------------------------------------------------------------

MaxFilter == 3

\* the tokens of a candidate's title text
FilterTitles == {{"aa", "t1"}, {"aa", "t1", "live"}, {"aa", "t2"}, {"aa"}, {"live"}}
FilterCandidates == [title : FilterTitles]

\* the step's configuration; None is a key that is not set
FilterCfgs ==
    [min_match_ratio : {None, Some(Ratio75)},
     min_token_matches : {None, Some(0), Some(1)},
     keep_original_on_empty : BOOLEAN]

\* step_cfg.get(key) or default
or_default(value, default) == IF value = None \/ value = Some(0) THEN default ELSE Val(value)

\* a candidate passes on either threshold
passes_match_either(item_score, overlap, min_match_ratio, min_token_matches) ==
    item_score >= min_match_ratio \/ overlap >= min_token_matches

passes_match(item_score, overlap, min_match_ratio, min_token_matches) ==
    ~(item_score < min_match_ratio \/ overlap < min_token_matches)

\* the document after the step: work.candidates and filter.match
filter_match(d, query_tokens, step_cfg) ==
    LET candidates == d.work.candidates
        min_match_ratio == or_default(step_cfg.min_match_ratio, Ratio40)
        min_token_matches == or_default(step_cfg.min_token_matches, 2)
        keeps(candidate) ==
            passes_match(match_score(candidate.title, query_tokens),
                         Cardinality(candidate.title \cap query_tokens),
                         min_match_ratio, min_token_matches)
        filtered == SelectSeq(candidates, keeps)
        removed == Len(candidates) - Len(filtered)
        noted == IF removed > 0
                 THEN [d EXCEPT !.filter.match = Some([removed |-> removed, kept |-> Len(filtered)])]
                 ELSE d
    IN IF candidates = <<>> \/ query_tokens = {} THEN d
       ELSE IF filtered = <<>> /\ step_cfg.keep_original_on_empty THEN noted
       ELSE [noted EXCEPT !.work.candidates = filtered]

\* one call of filter_match
FilterMatch ==
    /\ mode = "filter" /\ pc = "call"
    /\ rq' = [rq EXCEPT !.result = Some(filter_match(rq.data, rq.query_tokens, rq.step_cfg))]
    /\ pc' = "done"
    /\ UNCHANGED <<mode, data, config, context, args, idx, started, saw_start, workflow, trace, last>>

InitFilter ==
    /\ mode = "filter"
    /\ rq \in [data : {[work |-> [candidates |-> c], filter |-> [match |-> None]] :
                          c \in SeqsUpTo(FilterCandidates, MaxFilter)},
               query_tokens : {{"aa", "t1"}, {"t1"}, {}},
               step_cfg : FilterCfgs, result : {None}]
    /\ pc = "call"
    /\ Idle

NextFilter == FilterMatch

SpecFilter == InitFilter /\ [][NextFilter]_vars

\* ---------------------------------------------------------------------
\* Properties of filter_match
\* ---------------------------------------------------------------------

FilterDone == mode = "filter" /\ pc = "done" /\ rq.query_tokens # {}
FilterRatio == IF rq.step_cfg.min_match_ratio \in {None, Some(0)} THEN Ratio40
               ELSE Val(rq.step_cfg.min_match_ratio)
FilterTokens == IF rq.step_cfg.min_token_matches \in {None, Some(0)} THEN 2
                ELSE Val(rq.step_cfg.min_token_matches)

\* score >= min_match_ratio and shared tokens >= min_token_matches
Matches(c) ==
    /\ c.title # {}
    /\ Cardinality(c.title \cap rq.query_tokens) * Unit >= FilterRatio * Cardinality(c.title)
    /\ Cardinality(c.title \cap rq.query_tokens) >= FilterTokens

\* C24: with a non-empty query token set, filter_match keeps exactly the
\* candidates whose match score is at least min_match_ratio and whose number of
\* tokens shared with the query is at least min_token_matches, in input order;
\* the list replaces work.candidates unless it is empty and
\* keep_original_on_empty is set, and then work.candidates is left as it was.
\* (min_match_ratio and min_token_matches are the values the step uses: the
\* configured ones, or 0.4 and 2 where none or 0 is configured.)
C24_FilterMatch ==
    FilterDone =>
        LET inp == rq.data.work.candidates
            out == Val(rq.result).work.candidates
            kept == SelectSeq(inp, Matches)
        IN out = IF kept = <<>> /\ rq.step_cfg.keep_original_on_empty THEN inp ELSE kept

\* three candidates, the middle one removed, the others kept in order
C24_Witness ==
    /\ FilterDone
    /\ Len(rq.data.work.candidates) = 3
    /\ Val(rq.result).work.candidates
          = <<rq.data.work.candidates[1], rq.data.work.candidates[3]>>
    /\ rq.data.work.candidates[1] # rq.data.work.candidates[3]
    /\ ~Matches(rq.data.work.candidates[2])

\* nothing matches and keep_original_on_empty is set: the list is left as it was
C24_WitnessKeepOriginal ==
    /\ FilterDone
    /\ rq.step_cfg.keep_original_on_empty
    /\ rq.data.work.candidates # <<>>
    /\ \A i \in 1..Len(rq.data.work.candidates) : ~Matches(rq.data.work.candidates[i])
    /\ Val(rq.result).work.candidates = rq.data.work.candidates

\* nothing matches and keep_original_on_empty is not set: the list is emptied
C24_WitnessEmptied ==
    /\ FilterDone
    /\ ~rq.step_cfg.keep_original_on_empty
    /\ rq.data.work.candidates # <<>>
    /\ Val(rq.result).work.candidates = <<>>

\* ---------------------------------------------------------------------
\* render_template (pipeline.py)
\* ---------------------------------------------------------------------

MaxParts == 3

\* values of the document and the configuration, by type
IntV(n) == [int |-> n]
StrV(s) == [str |-> s]
ListV(q) == [list |-> q]
DictV(f) == [dict |-> f]
NoneV == [none |-> TRUE]

\* str(value), as format_map writes a value into a string
str_of(value) ==
    IF "int" \in DOMAIN value THEN ToString(value.int)
    ELSE IF "str" \in DOMAIN value THEN value.str
    ELSE IF "none" \in DOMAIN value THEN "None"
    ELSE IF "list" \in DOMAIN value THEN "['a']"
    ELSE "{'guid': 'g1'}"

\* documents with and without work.release
RenderDocs ==
    {[request |-> [query |-> StrV("q")],
      work |-> [id |-> IntV(5), tags |-> ListV(<<"a">>), release |-> DictV([guid |-> StrV("g1")])],
      decision |-> [status |-> StrV("selected")]],
     [request |-> [query |-> StrV("q")],
      work |-> [id |-> IntV(5)],
      decision |-> [status |-> StrV("selected")]]}

RenderConfig == [url |-> StrV("http://h")]

\* the parts _FORMATTER.parse finds in a string: literal text and placeholders
RenderPaths ==
    {<<"work", "id">>, <<"work", "tags">>, <<"work", "release">>, <<"work", "release", "guid">>,
     <<"work", "missing">>, <<"config", "url">>, <<"nope">>, <<"work", "id", "x">>}
RenderParts == {[lit |-> "id="]} \cup {[path |-> p] : p \in RenderPaths}
IsField(part) == "path" \in DOMAIN part

RECURSIVE dotted(_)
dotted(path) ==
    IF Len(path) = 1 THEN path[1] ELSE path[1] \o "." \o dotted(Tail(path))

\* the text of a template
RECURSIVE template_text(_)
template_text(parts) ==
    IF parts = <<>> THEN ""
    ELSE (IF IsField(parts[1]) THEN "{" \o dotted(parts[1].path) \o "}" ELSE parts[1].lit)
            \o template_text(Tail(parts))

\* render_template's ctx: data, request, work, decision, config as DotDicts
render_ctx(d, cfg) ==
    [data |-> DictV([request |-> DictV(d.request), work |-> DictV(d.work),
                     decision |-> DictV(d.decision)]),
     request |-> DictV(d.request),
     work |-> DictV(d.work),
     decision |-> DictV(d.decision),
     config |-> DictV(cfg)]

\* getattr along the names: a DotDict gives the value or None, anything else
\* raises (None here)
RECURSIVE get_attrs(_, _)
get_attrs(obj, names) ==
    IF names = <<>> THEN Some(obj)
    ELSE IF "dict" \in DOMAIN obj
         THEN get_attrs(IF names[1] \in DOMAIN obj.dict THEN obj.dict[names[1]] ELSE NoneV,
                        Tail(names))
         ELSE None

\* _FORMATTER.get_field(field, (), ctx): None when it raises. Under SafeMap a
\* missing root is the text "{root}"
get_field(path, ctx, safe_map) ==
    IF path[1] \in DOMAIN ctx THEN get_attrs(ctx[path[1]], Tail(path))
    ELSE IF safe_map THEN get_attrs(StrV("{" \o path[1] \o "}"), Tail(path))
    ELSE None

\* value.format_map(SafeMap(ctx)): None when it raises
RECURSIVE format_map(_, _)
format_map(parts, ctx) ==
    IF parts = <<>> THEN Some("")
    ELSE LET rest == format_map(Tail(parts), ctx)
             head == IF IsField(parts[1])
                     THEN LET got == get_field(parts[1].path, ctx, TRUE)
                          IN IF got = None THEN None ELSE Some(str_of(Val(got)))
                     ELSE Some(parts[1].lit)
         IN IF head = None \/ rest = None THEN None ELSE Some(Val(head) \o Val(rest))

\* the whole-field value returned as its string form
whole_field_as_text(resolved) == StrV(str_of(resolved))

\* return resolved
whole_field(resolved) == resolved

\* _render_value of a string
render_value(parts, ctx) ==
    LET whole == IF Len(parts) = 1 /\ IsField(parts[1])
                 THEN get_field(parts[1].path, ctx, FALSE) ELSE None
        formatted == format_map(parts, ctx)
    IN IF whole # None THEN whole_field(Val(whole))
       ELSE IF formatted # None THEN StrV(Val(formatted))
       ELSE StrV(template_text(parts))

render_template(parts, d, cfg) == render_value(parts, render_ctx(d, cfg))

\* one call of render_template on a string
RenderTemplate ==
    /\ mode = "render" /\ pc = "call"
    /\ rq' = [rq EXCEPT !.result = Some(render_template(rq.template, rq.data, rq.config))]
    /\ pc' = "done"
    /\ UNCHANGED <<mode, data, config, context, args, idx, started, saw_start, workflow, trace, last>>

InitRender ==
    /\ mode = "render"
    /\ rq \in [template : SeqsUpTo(RenderParts, MaxParts) \ {<<>>}, data : RenderDocs,
               config : {RenderConfig}, result : {None}]
    /\ pc = "call"
    /\ Idle

NextRender == RenderTemplate

SpecRender == InitRender /\ [][NextRender]_vars

\* ---------------------------------------------------------------------
\* Properties of render_template
\* ---------------------------------------------------------------------

RenderDone == mode = "render" /\ pc = "done"

\* the value at a dotted path of the document or config, None when a root, a
\* leaf or an intermediate value of the path is absent
At(path) ==
    LET roots == [data |-> DictV([request |-> DictV(rq.data.request),
                                  work |-> DictV(rq.data.work),
                                  decision |-> DictV(rq.data.decision)]),
                  request |-> DictV(rq.data.request), work |-> DictV(rq.data.work),
                  decision |-> DictV(rq.data.decision), config |-> DictV(rq.config)]
        RECURSIVE down(_, _)
        down(m, names) ==
            IF names[1] \notin DOMAIN m THEN None
            ELSE IF Len(names) = 1 THEN Some(m[names[1]])
            ELSE IF "dict" \in DOMAIN m[names[1]] THEN down(m[names[1]].dict, Tail(names))
            ELSE None
    IN down(roots, path)

\* C25: a template string that is exactly one placeholder whose dotted path
\* resolves in the document or config renders to the value at that path with
\* its original type (integer, list, mapping), not to its string form.
C25_WholeField ==
    (/\ RenderDone /\ Len(rq.template) = 1 /\ IsField(rq.template[1])
     /\ At(rq.template[1].path) # None)
        => Val(rq.result) = Val(At(rq.template[1].path))

\* "{work.id}" renders to the integer 5
C25_Witness ==
    /\ RenderDone /\ rq.template = <<[path |-> <<"work", "id">>]>>
    /\ Val(rq.result) = IntV(5)

\* "{work.release}" renders to the mapping
C25_WitnessMapping ==
    /\ RenderDone /\ rq.template = <<[path |-> <<"work", "release">>]>>
    /\ "dict" \in DOMAIN Val(rq.result)

\* the text a template renders to when each resolvable placeholder is
\* substituted and each unresolvable one is left as {path}
RECURSIVE Substituted(_)
Substituted(parts) ==
    IF parts = <<>> THEN ""
    ELSE (IF ~IsField(parts[1]) THEN parts[1].lit
          ELSE IF At(parts[1].path) # None THEN str_of(Val(At(parts[1].path)))
          ELSE "{" \o dotted(parts[1].path) \o "}")
            \o Substituted(Tail(parts))

Unresolvable(template) ==
    \E i \in 1..Len(template) : IsField(template[i]) /\ At(template[i].path) = None

\* C26: a template string with a placeholder whose dotted path cannot be
\* resolved (missing root, missing leaf, absent intermediate value) renders,
\* without raising, to the string with the resolvable placeholders substituted
\* and the unresolvable one left as its literal {path} text.
C26_UnresolvedLeftLiteral ==
    (RenderDone /\ Unresolvable(rq.template))
        => Val(rq.result) = StrV(Substituted(rq.template))

\* ---------------------------------------------------------------------
\* Properties of the confirmation skip (run_step, run_workflow)
\* ---------------------------------------------------------------------

\* this step of the run is a run_step call that skipped for lack of confirmation
SkipsNow == mode = "run" /\ last'.n > last.n /\ last'.end = "skipped"

\* the runner stays in its loops after the call: the next pre-step, workflow
\* selection, or the next workflow step
GoesOn ==
    \/ pc = "pre" /\ idx < Len(config.pre_steps) /\ pc' = "pre" /\ idx' = idx + 1
    \/ pc = "pre" /\ idx = Len(config.pre_steps) /\ pc' = "select"
    \/ pc = "wf" /\ idx < Len(workflow) /\ pc' = "wf" /\ idx' = idx + 1
    \/ pc = "wf" /\ idx = Len(workflow) /\ pc' = "post"

\* C27: when run_step skips a side-effect step for lack of confirmation it
\* appends a warning of type needs_confirm naming the step, sets no error and
\* does not change decision.status, and run_workflow goes on to the steps that
\* follow it (the step not being the requested end step).
C27_SkipContinues ==
    [][SkipsNow
          => /\ data'.warnings = Append(data.warnings, [type |-> "needs_confirm", step |-> last'.step])
             /\ data'.error = data.error /\ data.error = NoError
             /\ data'.decision.status = data.decision.status
             /\ ~is_end(last'.step) => GoesOn]_vars

\* C27 apart from a needs_choice left by an earlier pre-step: the skip itself
\* never stops the run.
C27_SkipContinuesUnlessNeedsChoice ==
    [][SkipsNow
          => /\ data'.warnings = Append(data.warnings, [type |-> "needs_confirm", step |-> last'.step])
             /\ data'.error = data.error /\ data.error = NoError
             /\ data'.decision.status = data.decision.status
             /\ (~is_end(last'.step) /\ data.decision.status # "needs_choice") => GoesOn]_vars

\* a skipped workflow step followed by the execution of the next step
C27_Witness ==
    /\ mode = "run" /\ last.phase = "wf" /\ last.end # "skipped"
    /\ Len(trace) >= 2 /\ Len(data.warnings) > 0
    /\ data.warnings[Len(data.warnings)].step = trace[Len(trace) - 1]

\* ---------------------------------------------------------------------
\* The cache store under concurrent workers (util.py, steps/builtin.py)
\* ---------------------------------------------------------------------

\* the workers of the pool that look up the same (namespace, key)
MaxWorkers == 3
CacheWorkers == 1..MaxWorkers

\* the payloads a request under that key can be answered with
Responses == {1, 2}

\* the file of the entry: None while the path does not exist, else the text on
\* disk as two halves, each the half of some payload's JSON text or a hole (0)
NoFile == None
FileOf(cells) == Some(cells)

\* json.loads(path.read_text()) of a file whose halves come from one payload
whole_text(cells) == Len(cells) = 2 /\ cells[1] # 0 /\ cells[1] = cells[2]

\* a text mixed from two payloads: both halves there, from different payloads
mixed_text(cells) == Len(cells) = 2 /\ cells[1] # 0 /\ cells[2] # 0 /\ cells[1] # cells[2]

\* the values read_cache can return for the file (ttl_seconds not set): None
\* for a missing path and for text that is no JSON; text mixed from two
\* payloads is either no JSON or the JSON of a mixed value
read_cache(file) ==
    IF file = NoFile THEN {None}
    ELSE IF whole_text(Val(file)) THEN {Some(Val(file))}
    ELSE IF mixed_text(Val(file)) THEN {None, Some(Val(file))}
    ELSE {None}

\* one write() of path.write_text at the writer's own offset
write_at(cells, k, half) ==
    [i \in 1..(IF Len(cells) > k THEN Len(cells) ELSE k) |->
        IF i = k THEN half ELSE IF i <= Len(cells) THEN cells[i] ELSE 0]

NoWorker == [pc |-> "read", payload |-> 0, pos |-> 0, got |-> None]

\* cache_value = read_cache(namespace, key, ttl): a hit ends the lookup
CacheRead(w) ==
    /\ mode = "cache" /\ rq.worker[w].pc = "read"
    /\ \E value \in read_cache(rq.file) :
          rq' = [rq EXCEPT !.worker[w].got = value,
                           !.worker[w].pc = IF value = None THEN "fetch" ELSE "done"]
    /\ UNCHANGED <<mode, pc, data, config, context, args, idx, started, saw_start, workflow, trace, last>>

\* on a miss: payload = response.json()
CacheFetch(w) ==
    /\ mode = "cache" /\ rq.worker[w].pc = "fetch"
    /\ \E payload \in Responses :
          rq' = [rq EXCEPT !.worker[w].payload = payload, !.worker[w].pc = "open"]
    /\ UNCHANGED <<mode, pc, data, config, context, args, idx, started, saw_start, workflow, trace, last>>

\* write_cache: path.write_text opens the file for writing, which empties it
CacheOpen(w) ==
    /\ mode = "cache" /\ rq.worker[w].pc = "open"
    /\ rq' = [rq EXCEPT !.file = FileOf(<<>>), !.worker[w].pc = "write", !.worker[w].pos = 1]
    /\ UNCHANGED <<mode, pc, data, config, context, args, idx, started, saw_start, workflow, trace, last>>

\* write_cache: the text goes out in two writes, then the file is closed
CacheWrite(w) ==
    /\ mode = "cache" /\ rq.worker[w].pc = "write"
    /\ LET me == rq.worker[w]
           cells == write_at(Val(rq.file), me.pos, me.payload)
       IN rq' = [rq EXCEPT !.file = FileOf(cells),
                           !.worker[w].pos = me.pos + 1,
                           !.worker[w].pc = IF me.pos = 2 THEN "done" ELSE "write",
                           !.written = IF me.pos = 2 THEN @ \cup {me.payload} ELSE @,
                           !.first = IF me.pos = 2 /\ @ = None /\ whole_text(cells)
                                     THEN Some(cells[1]) ELSE @]
    /\ UNCHANGED <<mode, pc, data, config, context, args, idx, started, saw_start, workflow, trace, last>>

\* written, first: the payloads whose write_cache call has returned, and the
\* content of the entry when it first was whole
InitCache ==
    /\ mode = "cache"
    /\ rq = [file |-> NoFile, worker |-> [w \in CacheWorkers |-> NoWorker],
             written |-> {}, first |-> None]
    /\ pc = "workers"
    /\ Idle

NextCache == \E w \in CacheWorkers : CacheRead(w) \/ CacheFetch(w) \/ CacheOpen(w) \/ CacheWrite(w)

SpecCache == InitCache /\ [][NextCache]_vars

\* ---------------------------------------------------------------------
\* Properties of the cache store
\* ---------------------------------------------------------------------

\* C28: the cache store is safe for concurrent workers: an entry once written
\* under a (namespace, key) is never replaced by different content, and a
\* worker reading the key while another writes it obtains either absent or a
\* complete previously written value.
C28_CacheSafe ==
    mode = "cache" =>
        /\ (rq.first # None /\ rq.file # NoFile /\ whole_text(Val(rq.file)))
              => Val(rq.file)[1] = Val(rq.first)
        /\ \A w \in CacheWorkers :
              rq.worker[w].got # None
                 => /\ whole_text(Val(rq.worker[w].got))
                    /\ Val(rq.worker[w].got)[1] \in rq.written

\* C28, first half: the entry's whole content never differs from its first
C28_NeverReplaced ==
    (mode = "cache" /\ rq.first # None /\ rq.file # NoFile /\ whole_text(Val(rq.file)))
        => Val(rq.file)[1] = Val(rq.first)

\* C28, second half: a read returns absent or a payload some write_cache call
\* has written whole
C28_ReadsWhole ==
    mode = "cache" =>
        \A w \in CacheWorkers :
            rq.worker[w].got # None
               => /\ whole_text(Val(rq.worker[w].got))
                  /\ Val(rq.worker[w].got)[1] \in rq.written

\* ---------------------------------------------------------------------
\* Batch mode of cmd_run (cli.py)
\* ---------------------------------------------------------------------

MaxItems == 3
MaxJobs == 2

\* the payloads of a batch file: a query with a media type, or with none
BatchItems ==
    {[query |-> "q1", media_type |-> "music"],
     [query |-> "q2", media_type |-> "movie"],
     [query |-> "q3", media_type |-> ""]}

\* _build_request_from_item: the document of one item
build_request_from_item(item) ==
    [EmptyDoc EXCEPT !.request = [explicit_version |-> FALSE, media_type |-> item.media_type,
                                  query |-> item.query]]

\* the slot a run would fill if results were appended as runs finish
next_free_slot(item_idx, results) ==
    CHOOSE i \in 1..Len(results) : results[i] = None /\ \A j \in 1..(i - 1) : results[j] # None

\* results[idx] = ...: the slot run_item fills
result_slot(item_idx, results) == item_idx

\* every run sharing the first document
shared_document(item_idx) == 1

\* data = _build_request_from_item(item): the document of the run, one per call
own_document(item_idx) == item_idx

BatchWorkers == 1..MaxJobs

IdleWorker == [pc |-> "idle", item_idx |-> 0, ref |-> 0, workflow |-> <<>>, pos |-> 1,
               context |-> [choice_index |-> None, dry_run |-> FALSE, confirm |-> FALSE]]

\* a pool thread takes the next submitted run_item(idx, item): it builds the
\* document and run_workflow makes the run's Context
BatchTake(w) ==
    /\ mode = "batch" /\ pc = "pool" /\ rq.worker[w].pc = "idle" /\ rq.queue # <<>>
    /\ LET item_idx == Head(rq.queue)
           ref == own_document(item_idx)
       IN rq' = [rq EXCEPT !.queue = Tail(@),
                           !.docs[ref] = Some(build_request_from_item(rq.items[item_idx])),
                           !.taken[item_idx] = @ + 1,
                           !.worker[w] = [IdleWorker EXCEPT !.pc = "select", !.item_idx = item_idx,
                                                            !.ref = ref, !.context = context]]
    /\ UNCHANGED <<mode, pc, data, config, context, args, idx, started, saw_start, workflow, trace, last>>

\* run_workflow of one run: workflow = select_workflow(...), or the error
BatchSelect(w) ==
    /\ mode = "batch" /\ rq.worker[w].pc = "select"
    /\ LET me == rq.worker[w]
           d == Val(rq.docs[me.ref])
           wf == select_workflow(config, d, args.workflow_name)
       IN IF wf = None
          THEN rq' = [rq EXCEPT
                        !.docs[me.ref] = Some([d EXCEPT
                            !.error = [message |-> Some("StepError"),
                                       step |-> Some("select_workflow"),
                                       type |-> Some("StepError"),
                                       code |-> Some(classify_exception("StepError")[1]),
                                       hint |-> Some(classify_exception("StepError")[2])],
                            !.decision.status = "error"]),
                        !.worker[w].pc = "store"]
          ELSE rq' = [rq EXCEPT !.worker[w].workflow = Val(wf).steps,
                                !.worker[w].pc = IF Val(wf).steps = <<>> THEN "store" ELSE "wf"]
    /\ UNCHANGED <<mode, pc, data, config, context, args, idx, started, saw_start, workflow, trace, last>>

\* run_workflow of one run: one iteration of the loop over the workflow's steps
BatchStep(w) ==
    /\ mode = "batch" /\ rq.worker[w].pc = "wf"
    /\ LET me == rq.worker[w]
           d == Val(rq.docs[me.ref])
           step_name == me.workflow[me.pos]
           step_cfg == step_cfg_for(config, step_name)
       IN \E inp \in InputsFor(step_cfg) :
             LET res == run_step(step_name, step_cfg, d, me.context, config, inp)
                 ends == \/ res.raised # "none"
                         \/ stops_after(res.doc, step_name)
                         \/ me.pos = Len(me.workflow)
             IN rq' = [rq EXCEPT
                         !.docs[me.ref] = Some(IF res.raised # "none"
                                               THEN capture_error(d, step_name, res)
                                               ELSE res.doc),
                         !.worker[w].pc = IF ends THEN "store" ELSE "wf",
                         !.worker[w].pos = IF ends THEN @ ELSE @ + 1]
    /\ UNCHANGED <<mode, pc, data, config, context, args, idx, started, saw_start, workflow, trace, last>>

\* run_item: results[idx] = _finalize_output(result)
BatchStore(w) ==
    /\ mode = "batch" /\ rq.worker[w].pc = "store"
    /\ LET me == rq.worker[w]
       IN rq' = [rq EXCEPT
                   !.results[result_slot(me.item_idx, rq.results)] =
                        Some(finalize_output(Val(rq.docs[me.ref]))),
                   !.finished = Append(@, me.item_idx),
                   !.worker[w] = IdleWorker]
    /\ UNCHANGED <<mode, pc, data, config, context, args, idx, started, saw_start, workflow, trace, last>>

\* the statuses counted into the summary
count_status(results, status) ==
    Cardinality({i \in 1..Len(results) :
        results[i] # None /\ Val(results[i]).decision.status = status})

\* after every future has its result: the summary over results
BatchSummary ==
    /\ mode = "batch" /\ pc = "pool" /\ Len(rq.finished) = Len(rq.items)
    /\ rq' = [rq EXCEPT !.summary = Some([total |-> Len(rq.items),
                                          selected |-> count_status(rq.results, "selected"),
                                          needs_choice |-> count_status(rq.results, "needs_choice"),
                                          error |-> count_status(rq.results, "error")])]
    /\ pc' = "done"
    /\ UNCHANGED <<mode, data, config, context, args, idx, started, saw_start, workflow, trace, last>>

\* taken, finished: how often each item was handed to run_item, and the order
\* in which the runs stored their results
InitBatch ==
    /\ mode = "batch"
    /\ config = Config(<<>>, <<"notify", "decide">>, Some(0), TRUE, TRUE)
    /\ context = [choice_index |-> None, dry_run |-> FALSE, confirm |-> FALSE]
    /\ args = NoArgs
    /\ \E items \in SeqsUpTo(BatchItems, MaxItems) \ {<<>>} :
          rq = [items |-> items,
                queue |-> [i \in 1..Len(items) |-> i],
                docs |-> [i \in 1..Len(items) |-> None],
                results |-> [i \in 1..Len(items) |-> None],
                taken |-> [i \in 1..Len(items) |-> 0],
                finished |-> <<>>,
                worker |-> [w \in BatchWorkers |-> IdleWorker],
                summary |-> None]
    /\ pc = "pool"
    /\ data = EmptyDoc
    /\ idx = 1
    /\ started = TRUE
    /\ saw_start = FALSE
    /\ workflow = <<>>
    /\ trace = <<>>
    /\ last = NoCall

NextBatch ==
    \/ \E w \in BatchWorkers : BatchTake(w) \/ BatchSelect(w) \/ BatchStep(w) \/ BatchStore(w)
    \/ BatchSummary

SpecBatch == InitBatch /\ [][NextBatch]_vars

\* ---------------------------------------------------------------------
\* Properties of batch mode
\* ---------------------------------------------------------------------

\* what a run makes of an item under this configuration, unconfirmed: music is
\* left at needs_choice after the skipped notify, movie ends complete with the
\* radarr dispatch skipped, an item without media type fails workflow selection
OutcomeOf(item, result) ==
    /\ result.request.query = item.query
    /\ result.request.media_type = item.media_type
    /\ item.media_type = "music"
          => /\ result.decision.status = "needs_choice"
             /\ result.warnings = <<[type |-> "needs_confirm", step |-> "notify"]>>
    /\ item.media_type = "movie"
          => /\ result.decision.status = "complete"
             /\ result.warnings = <<[type |-> "needs_confirm", step |-> "dispatch_radarr"]>>
    /\ item.media_type = ""
          => /\ result.decision.status = "error"
             /\ result.error.step = Some("select_workflow")
             /\ result.warnings = <<>>

\* C29: in batch mode with a pool of jobs > 1 workers, for every interleaving:
\* each item is processed by exactly one run with its own document and
\* Context, results[i] is the outcome of items[i], no run reads or writes
\* another run's document, no step modifies the shared configuration, and
\* summary.total is the number of items.
C29_BatchIsolation ==
    /\ [](mode = "batch"
            => /\ \A i \in 1..Len(rq.items) : rq.taken[i] <= 1
               /\ \A v, w \in BatchWorkers :
                     (v # w /\ rq.worker[v].pc # "idle" /\ rq.worker[w].pc # "idle")
                        => rq.worker[v].ref # rq.worker[w].ref
               /\ pc = "done"
                     => /\ \A i \in 1..Len(rq.items) :
                              /\ rq.taken[i] = 1
                              /\ rq.results[i] # None
                              /\ OutcomeOf(rq.items[i], Val(rq.results[i]))
                        /\ Val(rq.summary).total = Len(rq.items))
    /\ [][mode = "batch"
            => /\ config' = config
               /\ \A i \in 1..Len(rq.items) :
                     rq'.docs[i] # rq.docs[i]
                        => \E w \in BatchWorkers :
                              /\ rq'.worker[w] # rq.worker[w]
                              /\ i \in {rq.worker[w].ref, rq'.worker[w].ref}
                              /\ \A v \in BatchWorkers \ {w} : rq'.worker[v] = rq.worker[v]]_vars

\* three items with three outcomes, the runs finishing out of input order
C29_Witness ==
    /\ mode = "batch" /\ pc = "done" /\ Len(rq.items) = 3
    /\ rq.finished \notin {<<1, 2, 3>>}
    /\ Val(rq.summary) = [total |-> 3, selected |-> 0, needs_choice |-> 1, error |-> 1]

\* ---------------------------------------------------------------------
\* Properties of workflow selection (select_workflow, run_workflow)
\* ---------------------------------------------------------------------

\* the positions of the configured workflows with the requested name, and of
\* those whose match media type is the request's
NamedAt == {i \in 1..Len(config.workflows) :
               IsSome(args.workflow_name) /\ config.workflows[i].name = Val(args.workflow_name)}
MatchingAt == {i \in 1..Len(config.workflows) :
                  data.request.media_type # ""
                  /\ config.workflows[i].match = data.request.media_type}
FirstOf(S) == CHOOSE i \in S : \A j \in S : i <= j

SelectionFails ==
    /\ data'.decision.status = "error"
    /\ data'.error.step = Some("select_workflow")
    /\ pc' = "done" /\ trace' = trace /\ workflow' = workflow

\* C30: select_workflow returns the workflow with the given name when a name
\* is supplied and fails if no workflow has that name, even if the media type
\* would match one; without a name it returns the first workflow, in
\* configured order, whose match media type equals request.media_type; when
\* neither yields a workflow the run ends with decision.status = error and
\* error.step = select_workflow, and no workflow step is executed.
C30_SelectWorkflow ==
    /\ [][(mode = "run" /\ pc = "select")
            => IF IsSome(args.workflow_name)
               THEN IF NamedAt # {}
                    THEN workflow' = config.workflows[FirstOf(NamedAt)].steps /\ data' = data
                    ELSE SelectionFails
               ELSE IF MatchingAt # {}
                    THEN workflow' = config.workflows[FirstOf(MatchingAt)].steps /\ data' = data
                    ELSE SelectionFails]_vars
    /\ []((mode = "run" /\ data.error.step = Some("select_workflow"))
            => (pc = "done" /\ workflow = <<>> /\ last.phase # "wf"))

\* a name no workflow has, on a music request: the run ended in the
\* select_workflow error
C30_Witness ==
    /\ mode = "run" /\ pc = "done"
    /\ args.workflow_name = Some("tv") /\ data.request.media_type = "music"
    /\ data.decision.status = "error" /\ data.error.step = Some("select_workflow")

\* no name, a music request: the first of the two music workflows was chosen
C30_WitnessFirstMatch ==
    /\ mode = "run" /\ args.workflow_name = None /\ data.request.media_type = "music"
    /\ workflow # <<>> /\ workflow = config.workflows[1].steps
    /\ workflow # config.workflows[3].steps

\* no name and no media type: the select_workflow error
C30_WitnessNoMediaType ==
    /\ mode = "run" /\ pc = "done" /\ args.workflow_name = None
    /\ data.request.media_type = "" /\ data.error.step = Some("select_workflow")

\* ---------------------------------------------------------------------
\* Properties of external command steps (run_external, run_step)
\* ---------------------------------------------------------------------

\* this step of the run is a run_step call that ran an external command
RunsCommand == mode = "run" /\ last'.n > last.n /\ last'.ext # ""

\* the code each failure of a command is reported with
FailureCode ==
    [nonzero |-> "STEP_FAILED", badjson |-> "PARSE_ERROR", nonobject |-> "PARSE_ERROR",
     timeout |-> "TIMEOUT"]

\* the document apart from what the runner records about a failure
WithoutError(d) == [d EXCEPT !.error = NoError, !.decision.status = "none"]

\* C31: for an external command step, empty output carries the document
\* forward unchanged; a non-zero exit, output that is no JSON, output that is
\* no JSON object and a timeout each fail the step (STEP_FAILED, PARSE_ERROR,
\* PARSE_ERROR, TIMEOUT), and in every failure the run's document is not
\* replaced by the command's output.
C31_ExternalOutcomes ==
    [][RunsCommand
          => /\ last'.ext = "empty" => (last'.raised = "none" /\ data' = data)
             /\ last'.ext \in DOMAIN FailureCode
                   => /\ last'.raised = "StepError"
                      /\ data'.error.code = Some(FailureCode[last'.ext])
                      /\ data'.error.step = Some(last'.step)
                      /\ data'.decision.status = "error"
                      /\ WithoutError(data') = WithoutError(data)
                      /\ pc' = "done"]_vars

\* a command that exited non-zero after an earlier step had filled the document
C31_Witness ==
    /\ mode = "run" /\ last.ext = "nonzero" /\ last.n > 1
    /\ data.error.code = Some("STEP_FAILED")

\* a command that printed nothing, the run going on
C31_WitnessEmpty ==
    /\ mode = "run" /\ last.ext = "empty" /\ last.raised = "none" /\ pc # "done"

\* a command that timed out
C31_WitnessTimeout ==
    /\ mode = "run" /\ last.ext = "timeout" /\ data.error.code = Some("TIMEOUT")

\* ---------------------------------------------------------------------
\* The configuration run_step hands a builtin (pipeline.py)
\* ---------------------------------------------------------------------

\* a configuration mapping: a function from the keys that are set to values
MergeValues == {"1", "2"}
StepCfgKeys == {"limit", "timeout", "retries", "retry_statuses"}
RetryKeys == {"retries", "retry_backoff_seconds", "max_backoff_seconds", "retry_statuses"}
MergeStepCfgs == UNION {[keys -> MergeValues] : keys \in SUBSET StepCfgKeys}

\* config.timeouts and config.retries
MergeTimeouts == {<<>>, [grab |-> "9"], [other |-> "9"]}
MergeRetries == UNION {[keys -> {"7"}] : keys \in SUBSET {"retries", "retry_statuses", "jitter"}}

\* merged_cfg bound to the step's own mapping
same_dict(step_cfg) == [object |-> "step_cfg", value |-> step_cfg]

\* merged_cfg = dict(step_cfg): a new mapping with the step's keys
dict_copy(step_cfg) == [object |-> "merged_cfg", value |-> step_cfg]

\* merged_cfg[key] = value when the key is not set
set_default(mapping, key, value) ==
    IF key \in DOMAIN mapping THEN mapping
    ELSE [k \in DOMAIN mapping \cup {key} |-> IF k = key THEN value ELSE mapping[k]]

\* the three mappings after the merge: what the builtin is handed, the step's
\* configuration and the global configuration
merge_step_cfg(step_name, step_cfg, cfg) ==
    LET target == dict_copy(step_cfg)
        m0 == target.value
        m1 == IF step_name \in DOMAIN cfg.timeouts
              THEN set_default(m0, "timeout", cfg.timeouts[step_name]) ELSE m0
        RECURSIVE fill(_, _)
        fill(m, keys) ==
            IF keys = {} THEN m
            ELSE LET key == CHOOSE k \in keys : TRUE
                 IN fill(IF key \in DOMAIN cfg.retries
                         THEN set_default(m, key, cfg.retries[key]) ELSE m,
                         keys \ {key})
        m3 == set_default(fill(m1, RetryKeys), "_step", step_name)
    IN [merged_cfg |-> m3,
        step_cfg |-> IF target.object = "step_cfg" THEN m3 ELSE step_cfg,
        config |-> cfg]

\* run_step up to the call of the builtin
MergeCfg ==
    /\ mode = "merge" /\ pc = "call"
    /\ rq' = [rq EXCEPT !.result = Some(merge_step_cfg(rq.step_name, rq.step_cfg, rq.config))]
    /\ pc' = "done"
    /\ UNCHANGED <<mode, data, config, context, args, idx, started, saw_start, workflow, trace, last>>

InitMerge ==
    /\ mode = "merge"
    /\ rq \in [step_name : {"grab"}, step_cfg : MergeStepCfgs,
               config : [timeouts : MergeTimeouts, retries : MergeRetries],
               result : {None}]
    /\ pc = "call"
    /\ Idle

NextMerge == MergeCfg

SpecMerge == InitMerge /\ [][NextMerge]_vars

\* ---------------------------------------------------------------------
\* Properties of the merged configuration
\* ---------------------------------------------------------------------

MergeDone == mode = "merge" /\ pc = "done"
Merged == Val(rq.result).merged_cfg

\* C32: in the merged configuration every key of the step's own configuration
\* keeps its value, only absent timeout and retry keys are filled from the
\* workflow-level timeouts and retries, and the merge modifies neither the
\* step's configuration nor the global configuration.
C32_MergedCfg ==
    MergeDone =>
        /\ \A k \in DOMAIN rq.step_cfg : k \in DOMAIN Merged /\ Merged[k] = rq.step_cfg[k]
        /\ \A k \in DOMAIN Merged \ DOMAIN rq.step_cfg :
              \/ /\ k = "timeout" /\ rq.step_name \in DOMAIN rq.config.timeouts
                 /\ Merged[k] = rq.config.timeouts[rq.step_name]
              \/ /\ k \in {"retries", "retry_backoff_seconds", "max_backoff_seconds",
                           "retry_statuses"}
                 /\ k \in DOMAIN rq.config.retries /\ Merged[k] = rq.config.retries[k]
              \/ k = "_step" /\ Merged[k] = rq.step_name
        /\ ("timeout" \notin DOMAIN rq.step_cfg /\ rq.step_name \in DOMAIN rq.config.timeouts)
              => "timeout" \in DOMAIN Merged
        /\ \A k \in {"retries", "retry_statuses"} :
              (k \notin DOMAIN rq.step_cfg /\ k \in DOMAIN rq.config.retries)
                 => k \in DOMAIN Merged
        /\ Val(rq.result).step_cfg = rq.step_cfg
        /\ Val(rq.result).config = rq.config

\* the step sets retries, the workflow level sets retries, retry_statuses and a
\* timeout for the step: its own retries kept, the other two filled
C32_Witness ==
    /\ MergeDone
    /\ DOMAIN rq.step_cfg = {"limit", "retries"} /\ rq.step_cfg["retries"] = "1"
    /\ {"retry_statuses", "timeout"} \subseteq DOMAIN Merged
    /\ Merged["retries"] = "1" /\ Merged["retry_statuses"] = "7" /\ Merged["timeout"] = "9"
    /\ "jitter" \in DOMAIN rq.config.retries /\ "jitter" \notin DOMAIN Merged

\* ---------------------------------------------------------------------------
\* Search steps with a cache entry that expires (util.py read_cache /
\* write_cache; builtin.py prowlarr_search, identify_web_search).
\* Time is the integer time.time() returns; one Tick is one second.
\* ---------------------------------------------------------------------------

MaxClock == 3

\* cache_key(key_payload): one key per distinct request
SearchKeys == {"q1", "q2"}

\* response.json(): JSON null is Python None, anything else a value
SearchPayloads == {None, Some("p1"), Some("p2")}

\* cache.ttl_seconds of the step configuration (None when not configured)
TtlSeconds == {None, Some(0), Some(1)}

\* read_cache with the age compared inclusively
read_cache_expiring_at_ttl(file, ttl_seconds, now) ==
    IF file = None THEN None
    ELSE IF IsSome(ttl_seconds) /\ Val(file).timestamp # 0
            /\ now - Val(file).timestamp >= Val(ttl_seconds) THEN None
    ELSE Val(file).value

\* the entry's value, or None when the file is absent or older than ttl_seconds
read_cache_at(file, ttl_seconds, now) ==
    IF file = None THEN None
    ELSE IF IsSome(ttl_seconds) /\ Val(file).timestamp # 0
            /\ now - Val(file).timestamp > Val(ttl_seconds) THEN None
    ELSE Val(file).value

write_cache(files, key, value, now) ==
    [files EXCEPT ![key] = Some([timestamp |-> now, value |-> value])]

NoSearch == [ran |-> FALSE, key |-> "", at |-> 0, before |-> None, called |-> FALSE,
             ok |-> FALSE, payload |-> None]

\* the cache block of a search step: look up, else call the transport and
\* store the answer; a transport failure returns the document unchanged
search_with_cache(st, key, answer) ==
    LET cache_value == IF st.enabled THEN read_cache_at(st.files[key], st.ttl_seconds, st.now)
                       ELSE None
        cache_hit   == st.enabled /\ cache_value # None
        ok          == cache_hit \/ answer.ok
        payload     == IF cache_hit THEN cache_value ELSE IF answer.ok THEN answer.payload ELSE None
    IN  [st EXCEPT
           !.files = IF ~cache_hit /\ answer.ok /\ st.enabled
                     THEN write_cache(st.files, key, answer.payload, st.now) ELSE @,
           !.step  = [ran |-> TRUE, key |-> key, at |-> st.now, before |-> st.files[key],
                      called |-> ~cache_hit, ok |-> ok, payload |-> payload]]

TransportAnswers == {[ok |-> FALSE, payload |-> None]} \cup {[ok |-> TRUE, payload |-> p] : p \in SearchPayloads}

SearchStep ==
    /\ mode = "search"
    /\ \E key \in SearchKeys, answer \in TransportAnswers :
          rq' = search_with_cache(rq, key, answer)
    /\ UNCHANGED <<mode, data, config, context, args, pc, idx, started, saw_start, workflow, trace, last>>

Tick ==
    /\ mode = "search"
    /\ rq.now < MaxClock
    /\ rq' = [rq EXCEPT !.now = @ + 1]
    /\ UNCHANGED <<mode, data, config, context, args, pc, idx, started, saw_start, workflow, trace, last>>

InitSearch ==
    /\ mode = "search"
    /\ rq \in [now : {1}, enabled : BOOLEAN, ttl_seconds : TtlSeconds,
               files : {[k \in SearchKeys |-> None]}, step : {NoSearch}]
    /\ pc = "call"
    /\ Idle

NextSearch == SearchStep \/ Tick

SpecSearch == InitSearch /\ [][NextSearch]_vars

Age(file, at) == at - Val(file).timestamp

\* the entry exists and its age is at most ttl_seconds
Fresh(file, at) == file # None /\ IsSome(rq.ttl_seconds) /\ Age(file, at) <= Val(rq.ttl_seconds)

\* the entry is absent or older than ttl_seconds
Stale(file, at) == file = None \/ (IsSome(rq.ttl_seconds) /\ Age(file, at) > Val(rq.ttl_seconds))

\* C33: with caching enabled, a search step whose request was answered
\* earlier and whose entry is at most ttl_seconds old uses the cached payload
\* and makes no transport call; with the entry absent or older, the transport
\* is called and a successful answer is written as the entry.
C33_CachedOrFetched ==
    (rq.enabled /\ rq.step.ran) =>
        /\ Fresh(rq.step.before, rq.step.at) =>
              (~rq.step.called /\ rq.step.payload = Val(rq.step.before).value)
        /\ Stale(rq.step.before, rq.step.at) =>
              /\ rq.step.called
              /\ rq.step.ok =>
                    rq.files[rq.step.key] = Some([timestamp |-> rq.step.at, value |-> rq.step.payload])

\* C33, for entries whose stored payload is not JSON null
C33_CachedOrFetchedNonNull ==
    (rq.enabled /\ rq.step.ran) =>
        /\ (Fresh(rq.step.before, rq.step.at) /\ Val(rq.step.before).value # None) =>
              (~rq.step.called /\ rq.step.payload = Val(rq.step.before).value)
        /\ Stale(rq.step.before, rq.step.at) =>
              /\ rq.step.called
              /\ rq.step.ok =>
                    rq.files[rq.step.key] = Some([timestamp |-> rq.step.at, value |-> rq.step.payload])

C33_WitnessHit ==
    /\ rq.enabled /\ rq.step.ran /\ Fresh(rq.step.before, rq.step.at)
    /\ Age(rq.step.before, rq.step.at) = 1 /\ ~rq.step.called

C33_WitnessNull ==
    /\ rq.enabled /\ rq.step.ran /\ Fresh(rq.step.before, rq.step.at)
    /\ Val(rq.step.before).value = None /\ rq.step.called

\* ---------------------------------------------------------------------------
\* Canonical fields with provenance (canonical.py): one field, a sequence of
\* set_field calls.
\* ---------------------------------------------------------------------------

MaxCalls == 3

Sources == {"input", "url", "web_search", "provider", "fallback", "scraper"}

\* value arguments: None, the empty string, two texts
FieldValues == {None, Some(""), Some("a"), Some("b")}

SOURCE_PRIORITY(source) ==
    CASE source = "input" -> 3
      [] source = "url" -> 2
      [] source = "web_search" -> 2
      [] source = "provider" -> 1
      [] source = "fallback" -> 0
      [] OTHER -> 0

priority(source) == SOURCE_PRIORITY(source)

\* existing_prov.get("source", "fallback")
existing_source(canonical) ==
    IF IsSome(canonical.provenance) THEN Val(canonical.provenance).source ELSE "fallback"

existing_sources(canonical) ==
    IF IsSome(canonical.provenance) THEN Val(canonical.provenance).sources ELSE {}

\* a new value replaces the stored one only from a strictly higher source
replaces_from_higher(canonical, source) ==
    canonical.fields = None \/ priority(source) > priority(existing_source(canonical))

replaces(canonical, source) ==
    canonical.fields = None \/ priority(source) >= priority(existing_source(canonical))

set_field(canonical, value, source) ==
    IF value = None \/ value = Some("") THEN canonical
    ELSE IF replaces(canonical, source)
         THEN [fields |-> value,
               provenance |-> Some([source |-> source,
                                    sources |-> existing_sources(canonical) \cup {source}])]
         ELSE canonical

EmptyCanonical == [fields |-> None, provenance |-> None]

SetField ==
    /\ mode = "canonical"
    /\ Len(rq.calls) < MaxCalls
    /\ \E value \in FieldValues, source \in Sources :
          rq' = [canonical |-> set_field(rq.canonical, value, source),
                 calls |-> Append(rq.calls, [value |-> value, source |-> source,
                                             stored |-> priority(existing_source(rq.canonical))])]
    /\ UNCHANGED <<mode, data, config, context, args, pc, idx, started, saw_start, workflow, trace, last>>

InitCanonical ==
    /\ mode = "canonical"
    /\ rq = [canonical |-> EmptyCanonical, calls |-> <<>>]
    /\ pc = "call"
    /\ Idle

NextCanonical == SetField

SpecCanonical == InitCanonical /\ [][NextCanonical]_vars

\* the calls with a non-empty value from a source at least as high as the
\* one stored when the call was made
Winning(calls) ==
    {i \in 1..Len(calls) : /\ calls[i].value # None /\ calls[i].value # Some("")
                           /\ priority(calls[i].source) >= calls[i].stored}

LastWinning(calls) == CHOOSE i \in Winning(calls) : \A j \in Winning(calls) : j <= i

StoredIsLastWinning ==
    IF Winning(rq.calls) = {} THEN rq.canonical.fields = None
    ELSE /\ rq.canonical.fields = rq.calls[LastWinning(rq.calls)].value
         /\ existing_source(rq.canonical) = rq.calls[LastWinning(rq.calls)].source

PriorityNeverDecreases ==
    priority(existing_source(rq.canonical')) >= priority(existing_source(rq.canonical))

\* C34: over any sequence of set_field calls for one field, the priority of
\* the stored source never decreases (input over url and web_search over
\* provider over fallback), and the stored value is that of the last
\* non-empty call whose source priority was at least the priority stored
\* when it was made.
C34_SourcePriority == []StoredIsLastWinning /\ [][PriorityNeverDecreases]_vars

\* a provider value written after an input value is dropped, and a later
\* input value replaces the first one
C34_Witness ==
    /\ Len(rq.calls) = 3
    /\ rq.calls[1] = [value |-> Some("a"), source |-> "input", stored |-> 0]
    /\ rq.calls[2].source = "provider" /\ rq.calls[2].value = Some("b")
    /\ rq.calls[3].source = "input" /\ rq.calls[3].value = Some("b")
    /\ rq.canonical.fields = Some("b")
    /\ Val(rq.canonical.provenance).sources = {"input"}

\* equal priority: web_search replaces url
C34_WitnessEqual ==
    /\ Len(rq.calls) = 2
    /\ rq.calls[1].source = "url" /\ rq.calls[1].value = Some("a")
    /\ rq.calls[2].source = "web_search" /\ rq.calls[2].value = Some("b")
    /\ rq.canonical.fields = Some("b")

\* ---------------------------------------------------------------------------
\* Candidates of a search response (builtin.py _get_path, _find_candidates,
\* _map_candidates). A dotted path is the sequence path.split(".") gives.
\* ---------------------------------------------------------------------------

MaxFound == 2

\* items of a response list: two result objects and a bare string
FoundItems ==
    {DictV([title |-> StrV("t1"), description |-> StrV("d1")]),
     DictV([title |-> StrV("t2")]),
     StrV("x")}

FoundLists == UNION {[1..n -> FoundItems] : n \in 0..MaxFound}

\* response.json() of a provider
FoundPayloads ==
    {DictV([data |-> ListV(q)]) : q \in FoundLists}
        \cup {DictV([web |-> DictV([results |-> ListV(q)])]) : q \in FoundLists}
        \cup {ListV(q) : q \in FoundLists}
        \cup {DictV([data |-> StrV("x")]), NoneV}

\* response.results_path
ResponsePaths ==
    {None, Some(<<"data">>), Some(<<"web", "results">>), Some(<<"web">>), Some(<<"missing">>),
     Some(<<"data", "title">>)}

FallbackKeys == {<<>>, <<"results", "data">>}

\* response.fields: absent, empty, or output key -> path in the item
ResponseFields ==
    {None, Some(<<>>), Some([title |-> <<"title">>]),
     Some([title |-> <<"title">>, snippet |-> <<"description">>])}

RECURSIVE get_path_of(_, _)
get_path_of(obj, path) ==
    IF path = <<>> THEN obj
    ELSE IF "dict" \in DOMAIN obj /\ path[1] \in DOMAIN obj.dict
         THEN get_path_of(obj.dict[path[1]], Tail(path))
         ELSE NoneV

is_list(value) == "list" \in DOMAIN value
is_dict(value) == "dict" \in DOMAIN value

\* the first of the keys whose value in the payload is a list
RECURSIVE first_list(_, _)
first_list(payload, keys) ==
    IF keys = <<>> THEN <<>>
    ELSE IF keys[1] \in DOMAIN payload.dict /\ is_list(payload.dict[keys[1]])
         THEN payload.dict[keys[1]].list
         ELSE first_list(payload, Tail(keys))

\* _find_candidates without the response_path branch
find_by_fallback(payload, response_path, fallback_keys) ==
    IF is_list(payload) THEN payload.list
    ELSE IF is_dict(payload) THEN first_list(payload, fallback_keys)
    ELSE <<>>

find_candidates(payload, response_path, fallback_keys) ==
    IF IsSome(response_path)
    THEN LET found == get_path_of(payload, Val(response_path))
         IN IF is_list(found) THEN found.list ELSE <<>>
    ELSE find_by_fallback(payload, response_path, fallback_keys)

\* one mapped item that never carries _raw
map_item_without_raw(item, fields, include_raw) ==
    IF ~is_dict(item) THEN item
    ELSE DictV([key \in DOMAIN fields |-> get_path_of(item, fields[key])])

map_item(item, fields, include_raw) ==
    IF ~is_dict(item) THEN item
    ELSE DictV([key \in DOMAIN fields \cup (IF include_raw THEN {"_raw"} ELSE {}) |->
                   IF key = "_raw" /\ include_raw THEN item ELSE get_path_of(item, fields[key])])

\* `if not fields` holds for None and for an empty mapping
map_candidates(candidates, fields, include_raw) ==
    IF fields = None \/ DOMAIN Val(fields) = {} THEN candidates
    ELSE [i \in 1..Len(candidates) |-> map_item(candidates[i], Val(fields), include_raw)]

FindCandidates ==
    /\ mode = "candidates" /\ pc = "find"
    /\ rq' = [rq EXCEPT !.candidates =
                 Some(find_candidates(rq.payload, rq.response_path, rq.fallback_keys))]
    /\ pc' = "map"
    /\ UNCHANGED <<mode, data, config, context, args, idx, started, saw_start, workflow, trace, last>>

MapCandidates ==
    /\ mode = "candidates" /\ pc = "map"
    /\ rq' = [rq EXCEPT !.mapped =
                 Some(map_candidates(Val(rq.candidates), rq.fields, rq.include_raw))]
    /\ pc' = "done"
    /\ UNCHANGED <<mode, data, config, context, args, idx, started, saw_start, workflow, trace, last>>

InitCandidates ==
    /\ mode = "candidates"
    /\ rq \in [payload : FoundPayloads, response_path : ResponsePaths,
               fallback_keys : FallbackKeys, fields : ResponseFields, include_raw : BOOLEAN,
               candidates : {None}, mapped : {None}]
    /\ pc = "find"
    /\ Idle

NextCandidates == FindCandidates \/ MapCandidates

SpecCandidates == InitCandidates /\ [][NextCandidates]_vars

Found == Val(rq.candidates)
Mapped == Val(rq.mapped)

\* the value the payload holds at the response path, if the path is there
HasPath == get_path_of(rq.payload, Val(rq.response_path)) # NoneV

FoundAtPath ==
    (IsSome(rq.candidates) /\ IsSome(rq.response_path)) =>
        LET found == get_path_of(rq.payload, Val(rq.response_path))
        IN IF HasPath /\ is_list(found) THEN Found = found.list ELSE Found = <<>>

ConfiguredKeys ==
    (IF rq.fields = None THEN {} ELSE DOMAIN Val(rq.fields))
        \cup (IF rq.include_raw THEN {"_raw"} ELSE {})

OnePerCandidate ==
    /\ Len(Mapped) = Len(Found)
    /\ \A i \in 1..Len(Found) :
          IF is_dict(Found[i])
          THEN /\ is_dict(Mapped[i])
               /\ \A key \in ((DOMAIN Mapped[i].dict) \cap (DOMAIN Val(rq.fields))) \ {"_raw"} :
                     Mapped[i].dict[key] = get_path_of(Found[i], Val(rq.fields)[key])
               /\ rq.include_raw => ("_raw" \in DOMAIN Mapped[i].dict /\ Mapped[i].dict["_raw"] = Found[i])
          ELSE Mapped[i] = Found[i]

ExactlyConfiguredKeys ==
    \A i \in 1..Len(Found) : is_dict(Found[i]) => DOMAIN Mapped[i].dict = ConfiguredKeys

NoFields == rq.fields = None \/ DOMAIN Val(rq.fields) = {}

\* C35: with a response path _find_candidates returns the list at that path
\* of the payload, or an empty list when the path is absent or its value is
\* not a list; _map_candidates returns one output per candidate in the same
\* order, each mapped dict having exactly the configured field keys (plus
\* _raw when include_raw is set).
C35_FindAndMap ==
    /\ FoundAtPath
    /\ IsSome(rq.mapped) =>
          /\ Len(Mapped) = Len(Found)
          /\ ExactlyConfiguredKeys

\* C35 as the code has it: the keys are the configured ones when a
\* non-empty fields mapping is configured; without one the candidates are
\* returned as they are.
C35_FindAndMapConfigured ==
    /\ FoundAtPath
    /\ IsSome(rq.mapped) =>
          IF NoFields THEN Mapped = Found
          ELSE OnePerCandidate /\ ExactlyConfiguredKeys

C35_Witness ==
    /\ IsSome(rq.mapped)
    /\ rq.response_path = Some(<<"web", "results">>)
    /\ Len(Found) = 2 /\ is_dict(Found[1]) /\ ~is_dict(Found[2])
    /\ ~NoFields /\ rq.include_raw
    /\ DOMAIN Mapped[1].dict = {"title", "snippet", "_raw"}
    /\ Mapped[2] = StrV("x")

C35_WitnessNotList ==
    /\ IsSome(rq.candidates)
    /\ rq.response_path = Some(<<"web">>) /\ HasPath /\ Found = <<>>

C35_WitnessNoFields ==
    /\ IsSome(rq.mapped) /\ NoFields /\ rq.include_raw
    /\ Len(Found) = 1 /\ is_dict(Found[1]) /\ Mapped = Found

\* ---------------------------------------------------------------------------
\* The steps a run executes (run_workflow, pipeline.py)
\* ---------------------------------------------------------------------------

RunOver == mode = "run" /\ pc = "done"

\* the steps as listed: pre_steps, then the steps of the selected workflow
Listed == config.pre_steps \o workflow

Positions(step_name) == {i \in 1..Len(Listed) : Listed[i] = step_name}

First(S) == CHOOSE i \in S : \A j \in S : i <= j

SliceFrom == IF args.start_step = None THEN 1 ELSE First(Positions(Val(args.start_step)))

EndsAt == IF args.end_step = None THEN {}
          ELSE {i \in Positions(Val(args.end_step)) : i >= SliceFrom}

SliceTo == IF EndsAt = {} THEN Len(Listed) ELSE First(EndsAt)

StartNowhere == IsSome(args.start_step) /\ Positions(Val(args.start_step)) = {}

\* selection succeeded, no step raised, and no step left needs_choice behind
NothingStopped ==
    /\ "needs_choice" \notin last.statuses
    /\ data.error = NoError \/ data.error.type = Some("StepNotFound")

\* C36: when workflow selection succeeds and no step fails or yields
\* needs_choice, the run executes pre_steps and then the workflow's steps in
\* order, each listed occurrence once at most; with start_step S and end_step
\* E exactly the steps from the first S through the first E at or after it;
\* with S given and listed nowhere no step runs and the run ends with
\* decision.status = error and error.type = StepNotFound.
C36_StepSlice ==
    (RunOver /\ NothingStopped) =>
        IF StartNowhere
        THEN /\ trace = <<>>
             /\ data.decision.status = "error"
             /\ data.error.type = Some("StepNotFound")
        ELSE /\ trace = SubSeq(Listed, SliceFrom, SliceTo)
             /\ data.error = NoError

C36_Witness ==
    /\ RunOver /\ NothingStopped
    /\ args.start_step = Some("http_dispatch") /\ args.end_step = Some("notify")
    /\ trace = <<"http_dispatch", "notify">>
    /\ Len(Listed) > 5

C36_WitnessEndBeforeStart ==
    /\ RunOver /\ NothingStopped
    /\ args.start_step = Some("http_dispatch") /\ args.end_step = Some("prowlarr_search")
    /\ "prowlarr_search" \in {Listed[i] : i \in 1..Len(Listed)}
    /\ trace = <<"http_dispatch", "notify", "announce">>

\* the first occurrence of S and E is a pre-step: the run ends there
C36_WitnessFirstOccurrence ==
    /\ RunOver /\ NothingStopped
    /\ args.start_step = Some("tagger") /\ args.end_step = Some("tagger")
    /\ config.pre_steps = <<"decide", "tagger">>
    /\ trace = <<"tagger">>

C36_WitnessNotFound ==
    /\ RunOver /\ StartNowhere /\ workflow # <<>> /\ trace = <<>>
    /\ data.error.type = Some("StepNotFound")

C36_WitnessWhole ==
    /\ RunOver /\ NothingStopped /\ args.start_step = None /\ args.end_step = None
    /\ Len(trace) = 7

\* ---------------------------------------------------------------------------
\* The log entries of a run (pipeline.py _append_log, run_step, the step
\* loops of run_workflow). A document here is its logs list; `data` is the
\* object run_step was handed and appends to, `result` the object it returns.
\* ---------------------------------------------------------------------------

MaxSteps == 2

LogStepNames == <<"s1", "s2", "s3">>

\* a step's configuration: a builtin that exists, one that does not, a command
LogStepCfgs == [kind : {"builtin", "unknown", "command"}, side_effect : BOOLEAN,
                skip_on_dry_run : BOOLEAN]

\* what the step body does: a builtin returns or raises; a command's outcome
\* is one of ExtOutcomes, and the object it prints carries the logs it was
\* sent or none
LogInputs == [raises : BOOLEAN, ext : ExtOutcomes, echo : BOOLEAN]

append_log(d, step_name, phase, status) ==
    [d EXCEPT !.logs = Append(@, [step |-> step_name, phase |-> phase, status |-> status])]

\* run_external: raised, or the object returned (`data` itself on empty output)
run_external_logs(d, inp) ==
    IF inp.ext \in {"timeout", "nonzero", "badjson", "nonobject"}
    THEN [raised |-> TRUE, same |-> TRUE, doc |-> d]
    ELSE IF inp.ext = "empty" THEN [raised |-> FALSE, same |-> TRUE, doc |-> d]
    ELSE [raised |-> FALSE, same |-> FALSE, doc |-> [logs |-> IF inp.echo THEN d.logs ELSE <<>>]]

\* run_step: `data` after the call, and the object returned
run_step_logs(step_name, step_cfg, d, ctx, inp) ==
    LET d0 == append_log(d, step_name, "start", "")
        ext == run_external_logs(d0, inp)
        ended(status) == append_log(d0, step_name, "end", status)
    IN IF needs_confirm(step_cfg.side_effect, ctx)
       THEN [raised |-> FALSE, data |-> ended("skipped"), result |-> ended("skipped")]
       ELSE IF ctx.dry_run /\ step_cfg.skip_on_dry_run
       THEN [raised |-> FALSE, data |-> ended("dry_run"), result |-> ended("dry_run")]
       ELSE IF step_cfg.kind = "command"
       THEN IF ext.raised THEN [raised |-> TRUE, data |-> d0, result |-> d0]
            ELSE [raised |-> FALSE, data |-> ended("ok"),
                  result |-> IF ext.same THEN ended("ok") ELSE ext.doc]
       ELSE IF step_cfg.kind = "unknown" \/ inp.raises
       THEN [raised |-> TRUE, data |-> d0, result |-> d0]
       ELSE [raised |-> FALSE, data |-> ended("ok"), result |-> ended("ok")]

\* one iteration of a step loop of run_workflow: data = run_step(...), or the
\* except branch, which appends the error entry to `data` and returns
LogStep ==
    /\ mode = "logs" /\ pc = "steps"
    /\ \E inp \in LogInputs :
         LET step_name == LogStepNames[rq.i]
             res == run_step_logs(step_name, rq.steps[rq.i], rq.doc, rq.context, inp)
         IN /\ rq' = [rq EXCEPT !.doc = IF res.raised
                                         THEN append_log(res.data, step_name, "end", "error")
                                         ELSE res.result,
                                !.i = @ + 1,
                                !.started = Append(@, step_name)]
            /\ pc' = IF res.raised \/ rq.i = Len(rq.steps) THEN "done" ELSE "steps"
    /\ UNCHANGED <<mode, data, config, context, args, idx, started, saw_start, workflow, trace, last>>

InitLogs ==
    /\ mode = "logs"
    /\ rq \in [steps : UNION {[1..n -> LogStepCfgs] : n \in 1..MaxSteps},
               context : [confirm : BOOLEAN, dry_run : BOOLEAN],
               i : {1}, doc : {[logs |-> <<>>]}, started : {<<>>}]
    /\ pc = "steps"
    /\ Idle

NextLogs == LogStep

SpecLogs == InitLogs /\ [][NextLogs]_vars

EndStatuses == {"ok", "skipped", "dry_run", "error"}

Entries(step_name, phase) ==
    {k \in 1..Len(rq.doc.logs) : rq.doc.logs[k].step = step_name /\ rq.doc.logs[k].phase = phase}

\* C37: for every step run_step has started, the document carried forward
\* holds a start entry for it followed by exactly one end entry for it, of
\* status ok, skipped, dry_run or error.
C37_StartThenOneEnd ==
    \A n \in 1..Len(rq.started) :
        LET step_name == rq.started[n]
        IN /\ Entries(step_name, "start") # {}
           /\ Cardinality(Entries(step_name, "end")) = 1
           /\ \A e \in Entries(step_name, "end") :
                 /\ rq.doc.logs[e].status \in EndStatuses
                 /\ \E s \in Entries(step_name, "start") : s < e

\* ---------------------------------------------------------------------------
\* What decide leaves behind when it selects (builtin.py decide)
\* ---------------------------------------------------------------------------

DecideOver == mode = "decide" /\ pc = "done"

\* C38: whenever decide leaves decision.status = selected, work.selected
\* equals decision.selected, and a decision.index that is not null is the
\* position in work.candidates of an element equal to decision.selected.
C38_SelectedConsistent ==
    (DecideOver /\ data.decision.status = "selected") =>
        /\ IsSome(data.decision.selected)
        /\ data.work.selected = data.decision.selected
        /\ IsSome(data.decision.index) =>
              /\ Val(data.decision.index) \in 0..(Len(data.work.candidates) - 1)
              /\ data.work.candidates[Val(data.decision.index) + 1] = Val(data.decision.selected)

\* the second candidate was selected for its format
C38_Witness ==
    /\ DecideOver /\ data.decision.status = "selected"
    /\ data.decision.reason = Some("auto_format")
    /\ data.decision.index = Some(1)
    /\ data.work.selected = Some(data.work.candidates[2])

\* a selection made earlier is found at the second position
C38_WitnessPreselected ==
    /\ DecideOver /\ data.decision.status = "selected"
    /\ data.decision.reason = None /\ context.choice_index = None
    /\ data.decision.index = Some(1)
    /\ Len(data.work.candidates) = 2 /\ data.work.candidates[1] # data.work.candidates[2]

\* ---------------------------------------------------------------------------
\* run_step on one step, for every way of configuring side_effect
\* (pipeline.py run_step, step_metadata.py)
\* ---------------------------------------------------------------------------

\* steps of the registry that are side-effecting or not, an external command
\* and a name nobody knows; side_effect absent, true or false
GateSteps ==
    {[step_name |-> "prowlarr_grab", step_cfg |-> StepCfg(Some("prowlarr_grab"), FALSE, se, sk, None)] :
        se \in {None, Some(TRUE), Some(FALSE)}, sk \in BOOLEAN}
    \cup {[step_name |-> "http_dispatch", step_cfg |-> StepCfg(Some("http_dispatch"), FALSE, se, sk, None)] :
        se \in {None, Some(TRUE), Some(FALSE)}, sk \in BOOLEAN}
    \cup {[step_name |-> "dispatch_radarr", step_cfg |-> StepCfg(Some("arr_dispatch"), FALSE, se, sk, Some("radarr"))] :
        se \in {None, Some(TRUE), Some(FALSE)}, sk \in BOOLEAN}
    \cup {[step_name |-> "decide", step_cfg |-> StepCfg(Some("decide"), FALSE, se, sk, None)] :
        se \in {None, Some(TRUE), Some(FALSE)}, sk \in BOOLEAN}
    \cup {[step_name |-> "notify", step_cfg |-> StepCfg(None, TRUE, se, sk, None)] :
        se \in {None, Some(TRUE), Some(FALSE)}, sk \in BOOLEAN}
    \cup {[step_name |-> "nosuch", step_cfg |-> StepCfg(Some("nosuch"), FALSE, se, sk, None)] :
        se \in {None, Some(TRUE), Some(FALSE)}, sk \in BOOLEAN}

\* a document with a selection, so that a dispatch step reaches its request
GateDoc == [EmptyDoc EXCEPT !.work.candidates = <<Flac120, Mp3x15>>, !.work.selected = Some(Flac120)]

RunStep ==
    /\ mode = "gate" /\ pc = "call"
    /\ \E inp \in InputsFor(rq.step_cfg) :
          rq' = [rq EXCEPT !.result =
                    Some(run_step(rq.step_name, rq.step_cfg, GateDoc, rq.context, config, inp))]
    /\ pc' = "done"
    /\ UNCHANGED <<mode, data, config, context, args, idx, started, saw_start, workflow, trace, last>>

InitGate ==
    /\ mode = "gate"
    /\ rq \in {[step_name |-> g.step_name, step_cfg |-> g.step_cfg, context |-> c, result |-> None] :
                  g \in GateSteps, c \in Contexts({None})}
    /\ pc = "call"
    /\ Idle

NextGate == RunStep

SpecGate == InitGate /\ [][NextGate]_vars

GateDone == mode = "gate" /\ pc = "done"

GateBuiltin == IF IsSome(rq.step_cfg.builtin) THEN Val(rq.step_cfg.builtin) ELSE rq.step_name

InRegistry == GateBuiltin \in DOMAIN STEP_METADATA

RegistrySideEffect == InRegistry /\ STEP_METADATA[GateBuiltin].side_effect

WasSkipped == Val(rq.result).end = "skipped" /\ ~Val(rq.result).body

\* neither confirm nor dry_run: the context in which run_step asks for confirmation
Unconfirmed == ~rq.context.confirm /\ ~rq.context.dry_run

\* C39: the side_effect key of a step's configuration overrides the registry
\* both ways. With side_effect = false a registry side-effect builtin is
\* executed without confirmation; with side_effect = true a step the registry
\* does not mark is skipped for lack of confirmation; a step the registry
\* does not know and that has no key is never skipped for it.
C39_ConfiguredSideEffect ==
    GateDone =>
        /\ (rq.step_cfg.side_effect = Some(FALSE) /\ RegistrySideEffect /\ ~rq.context.confirm) =>
              /\ ~WasSkipped
              /\ ~(rq.context.dry_run /\ rq.step_cfg.skip_on_dry_run) => Val(rq.result).body
        /\ (rq.step_cfg.side_effect = Some(TRUE) /\ ~RegistrySideEffect /\ Unconfirmed) => WasSkipped
        /\ (rq.step_cfg.side_effect = None /\ ~InRegistry) => ~WasSkipped

\* prowlarr_grab configured with side_effect = false sent its request
\* without confirmation
C39_Witness ==
    /\ GateDone /\ rq.step_name = "prowlarr_grab" /\ rq.step_cfg.side_effect = Some(FALSE)
    /\ Unconfirmed
    /\ Val(rq.result).body /\ Val(rq.result).calls > 0
    /\ Val(rq.result).doc.dispatch["prowlarr"] = "ok"

\* decide configured with side_effect = true was skipped
C39_WitnessGated ==
    /\ GateDone /\ rq.step_name = "decide" /\ rq.step_cfg.side_effect = Some(TRUE)
    /\ Unconfirmed /\ WasSkipped
    /\ Val(rq.result).doc.decision = NoDecision

\* an external command without the key ran without confirmation
C39_WitnessUnknown ==
    /\ GateDone /\ rq.step_name = "notify" /\ rq.step_cfg.side_effect = None
    /\ Unconfirmed /\ Val(rq.result).body

\* ---------------------------------------------------------------------------
\* A run over the output of an earlier run (run_workflow, pipeline.py);
\* rq.input is the document the run was handed.
\* ---------------------------------------------------------------------------

Resumed ==
    /\ RunOver
    /\ rq.input.decision.status = "needs_choice"
    /\ args.start_step = None

OneWorkflowStep ==
    /\ workflow # <<>>
    /\ trace = config.pre_steps \o <<workflow[1]>>
    /\ data.decision.status = "needs_choice"

C40_WitnessDecideFirst ==
    /\ Resumed /\ context.choice_index = Some(0)
    /\ workflow # <<>> /\ workflow[1] = "decide"
    /\ data.decision.status = "selected" /\ Len(trace) > Len(config.pre_steps) + 1

====
